---- MODULE Spec2Model ----
(***************************************************************************)
(* A model of the Task orchestration engine (class Task): the ask/say      *)
(* interaction protocol over the display log (clineMessages), the operator *)
(* response slot, the abort flags, and the streaming read loop of          *)
(* recursivelyMakeClineRequests.                                           *)
(*                                                                         *)
(* JavaScript runs one job at a time: the code between two awaits is one   *)
(* atomic step.  Each action below is one such stretch of a method.        *)
(* Date.now() is the variable now, which never decreases; two reads within *)
(* one clock tick return the same value.                                   *)
(***************************************************************************)
EXTENDS Integers, Sequences, FiniteSets, TLC

(***************************************************************************)
(* Bounds of the model.                                                    *)
(***************************************************************************)
\* Largest value of the clock.
MaxTime == 2
\* Largest length of the display log.
MaxMsgs == 3
\* Number of concurrent async contexts calling ask.
NumCallers == 2

\* lastMessageTs before any message: `public lastMessageTs?: number`.
UndefinedTs == 0

Callers == 1..NumCallers
AskTypes == {"command_output", "tool"}
SayTypes == {"text"}
Texts == {"t1"}
Partials == {"true", "false", "undefined"}
Responses == {"yesButtonClicked"}
\* The responses given to the asks of the request loop.
AskResponses == {"yesButtonClicked", "noButtonClicked", "messageResponse"}

VARIABLES
    \* ---- Task fields --------------------------------------------------
    clineMessages,      \* the display log
    lastMessageTs,      \* ts of the most recent interactive message
    askResponse,        \* the pending-response slot: askResponse with its text and
                        \* images, assigned and cleared together ("undefined": empty)
    abort,              \* Task.abort
    abandoned,          \* Task.abandoned
    \* ---- environment --------------------------------------------------
    now,                \* Date.now()
    \* ---- one record per async context running Task.ask ----------------
    pc,                 \* where the context's ask call is
    askTs,              \* the local askTs of the context's ask call (UndefinedTs
                        \* before it is assigned and once the call has ended)
    call,               \* the partial argument of the context's ask call
    \* ---- observation --------------------------------------------------
    ended,              \* how the last step ended a call of ask or say: the error
                        \* thrown ("aborted", "ignored1", "ignored2", "ignored") or
                        \* the response ask returned (NoEnd: it ended none so)
    track,              \* the partial-then-complete sequence being observed
    \* ---- Task fields used by the request loop -------------------------
    apiConversationHistory,     \* the model-facing history
    isStreaming,
    didRejectTool,
    didAlreadyUseTool,
    userMessageContentReady,
    didCompleteReadingStream,
    didFinishAbortingStream,
    \* ---- the async context running recursivelyMakeClineRequests -------
    sp,                 \* where the context is
    turn,               \* depth of the recursion (1: the outermost call)
    locals,             \* assistantMessage, reasoningMessage, inputTokens,
                        \* outputTokens, lastApiReqIndex, and the cancelReason
                        \* argument of a running abortStream
    attempt,            \* attemptApiRequest: retryAttempt and the countdown i
    requests,           \* calls of api.createMessage so far
    chunks,             \* chunks the model backend has yielded so far
    \* ---- observation --------------------------------------------------
    obs,                \* what happened to the stream of the current turn
    \* ---- environment --------------------------------------------------
    config,             \* what providerRef.deref().getState() returns, and
                        \* the options the task was constructed with
    \* ---- Task fields used at the start of a turn ----------------------
    consecutiveMistakeCount,
    isPaused,
    consecutiveAutoApprovedRequestsCount,   \* Task field of the same name (line 171)
    pauseInterval,      \* TRUE while the timer of waitForResume is set
    \* ---- initiateTaskLoop and the other async contexts ----------------
    userContent,        \* the userContent argument of the running call
    iteration,          \* iterations of initiateTaskLoop begun so far
    resume,             \* the call of resumePausedTask: its position and
                        \* its lastMessage argument
    \* ---- the task directory in global storage -------------------------
    savedApiMessages,   \* what readApiMessages returns
    savedTaskMessages   \* what readTaskMessages returns

askVars == <<clineMessages, lastMessageTs, askResponse>>
taskVars == <<abort, abandoned>>
callerVars == <<pc, askTs, call>>
taskFlags == <<isStreaming, didRejectTool, didAlreadyUseTool,
               userMessageContentReady, didCompleteReadingStream,
               didFinishAbortingStream>>
loopVars == <<sp, turn, locals, attempt, requests, chunks>>
turnVars == <<consecutiveMistakeCount, isPaused, consecutiveAutoApprovedRequestsCount, pauseInterval, userContent,
              iteration, resume>>
storeVars == <<savedApiMessages, savedTaskMessages>>
streamVars == <<apiConversationHistory, taskFlags, loopVars, obs, config, turnVars,
               storeVars>>
vars == <<clineMessages, lastMessageTs, askResponse, abort,
          abandoned, now, pc, askTs, call, ended, track, streamVars>>

(***************************************************************************)
(* The display log.                                                        *)
(***************************************************************************)
Message(ts, type, sub, text, partial) ==
    [ts |-> ts, type |-> type, sub |-> sub, text |-> text, partial |-> partial]

LastIndex == Len(clineMessages)
LastMessage == clineMessages[LastIndex]

\* Mutant: the subtype is read from the say field whatever the kind, so a
\* trailing partial ask is never recognised.
IsUpdatingPreviousPartialSayField(kind, sub) ==
    /\ Len(clineMessages) > 0
    /\ clineMessages[Len(clineMessages)].partial = "true"
    /\ clineMessages[Len(clineMessages)].type = "say"
    /\ clineMessages[Len(clineMessages)].sub = sub

\* lastMessage && lastMessage.partial && lastMessage.type === kind
\*             && lastMessage.ask/say === type
IsUpdatingPreviousPartial(kind, sub) ==
    /\ LastIndex > 0
    /\ LastMessage.partial = "true"
    /\ LastMessage.type = kind
    /\ LastMessage.sub = sub

\* addToClineMessages: push (the awaits that follow change nothing here).
AddToClineMessages(msg) == Append(clineMessages, msg)

\* Mutant: the in-place mutation also restamps the message.
UpdateLastMessageRestamped(text, partial) ==
    [clineMessages EXCEPT ![Len(clineMessages)] =
        [@ EXCEPT !.text = text, !.partial = partial, !.ts = now]]

\* The in-place mutation of the last message: text and partial are
\* assigned, ts is left alone.
UpdateLastMessage(text, partial) ==
    [clineMessages EXCEPT ![LastIndex] =
        [@ EXCEPT !.text = text, !.partial = partial]]

\* Mutant: the guard is missing.
AbortGuardMissing == FALSE

\* `if (this.abort) throw ...` at the head of ask and of say.
AbortGuard == abort

\* Mutant: the option is not consulted.
SayLastMessageTsAlways(isNonInteractive, ts) == ts

\* say: `if (!options.isNonInteractive) this.lastMessageTs = ts`.
SayLastMessageTs(isNonInteractive, ts) ==
    IF isNonInteractive THEN lastMessageTs ELSE ts

\* The display log after a say that passed the abort guard.
SayMessages(type, text, partial) ==
    IF partial # "undefined" /\ IsUpdatingPreviousPartial("say", type)
    THEN UpdateLastMessage(text, partial)
    ELSE AddToClineMessages(Message(now, "say", type, text,
                                    IF partial = "true" THEN "true" ELSE "undefined"))

\* lastMessageTs after a say that passed the abort guard.
SayTs(type, partial, isNonInteractive) ==
    IF partial # "undefined" /\ IsUpdatingPreviousPartial("say", type)
    THEN IF partial = "true"
         THEN lastMessageTs
         ELSE SayLastMessageTs(isNonInteractive, LastMessage.ts)
    ELSE SayLastMessageTs(isNonInteractive, now)

\* Whether a call appends (and so needs room in the bounded log).
Appends(kind, type, partial) ==
    ~(partial # "undefined" /\ IsUpdatingPreviousPartial(kind, type))

(***************************************************************************)
(* Observation of one partial-then-complete sequence (not program state):  *)
(* the (kind, subtype) of the sequence, the log length before its first    *)
(* partial call, the clock value that call read, and whether the           *)
(* completing call has been made.                                          *)
(***************************************************************************)
NoTrack ==
    [active |-> FALSE, kind |-> "none", sub |-> "none", base |-> 0,
     ts |-> 0, done |-> FALSE, closedLen |-> 0]

Continues(kind, sub) ==
    track.active /\ ~track.done /\ track.kind = kind /\ track.sub = sub

\* The observation after a call (kind, sub, partial) that passed the abort
\* guard and left the log as msgs.
TrackAfter(kind, sub, partial, msgs) ==
    IF partial = "true"
    THEN IF Continues(kind, sub)
         THEN track
         ELSE [active |-> TRUE, kind |-> kind, sub |-> sub,
               base |-> Len(clineMessages), ts |-> now, done |-> FALSE,
               closedLen |-> 0]
    ELSE IF partial = "false" /\ Continues(kind, sub)
         THEN [track EXCEPT !.done = TRUE, !.closedLen = Len(msgs)]
         ELSE IF track.active /\ ~track.done
              THEN NoTrack      \* another display message came in between
              ELSE track

\* The step ended no call with an error or a response.
NoEnd == "none"

(***************************************************************************)
(* Task.ask, from its call to its first await.  pc of the calling context: *)
(*   "idle"           no ask call in progress                              *)
(*   "addingPartial"  awaiting addToClineMessages, before throw (#2)       *)
(*   "persisting"     awaiting addToClineMessages / saveClineMessages,     *)
(*                    before pWaitFor                                      *)
(*   "waiting"        in pWaitFor                                          *)
(***************************************************************************)
\* The call ends at once: the context is idle again, its locals are gone.
AskEnds(c) ==
    /\ pc' = [pc EXCEPT ![c] = "idle"]
    /\ askTs' = [askTs EXCEPT ![c] = UndefinedTs]
    /\ call' = [call EXCEPT ![c] = "undefined"]

AskAborted(c, partial) ==
    /\ AskEnds(c)
    /\ ended' = "aborted"
    /\ UNCHANGED <<askVars, track>>

\* partial === true, updating the previous partial: throw (#1).
AskUpdatePartial(c, type, text) ==
    /\ clineMessages' = UpdateLastMessage(text, "true")
    /\ AskEnds(c)
    /\ ended' = "ignored1"
    /\ UNCHANGED <<lastMessageTs, askResponse>>

\* Mutant: a new partial ask falls through to the wait like a complete one.
AskNewPartialWaits(c, type, text) ==
    /\ Len(clineMessages) < MaxMsgs
    /\ askTs' = [askTs EXCEPT ![c] = now]
    /\ lastMessageTs' = now
    /\ clineMessages' = AddToClineMessages(Message(now, "ask", type, text, "true"))
    /\ pc' = [pc EXCEPT ![c] = "persisting"]
    /\ call' = [call EXCEPT ![c] = "true"]
    /\ ended' = NoEnd
    /\ UNCHANGED askResponse

\* partial === true, a new partial message: append, then throw (#2).
AskNewPartial(c, type, text) ==
    /\ LastIndex < MaxMsgs
    /\ askTs' = [askTs EXCEPT ![c] = now]
    /\ lastMessageTs' = now
    /\ clineMessages' = AddToClineMessages(Message(now, "ask", type, text, "true"))
    /\ pc' = [pc EXCEPT ![c] = "addingPartial"]
    /\ call' = [call EXCEPT ![c] = "true"]
    /\ ended' = NoEnd
    /\ UNCHANGED askResponse

\* Mutant: a response that is already in the slot is left there.
ResponseAtAskKept == askResponse

\* `this.askResponse = undefined` before a complete ask's message is
\* written, so that earlier responses are not taken for this ask's.
ResponseAtAsk == "undefined"

\* partial === false completing the previous partial.
AskCompletePartial(c, type, text) ==
    /\ askResponse' = ResponseAtAsk
    /\ askTs' = [askTs EXCEPT ![c] = LastMessage.ts]
    /\ lastMessageTs' = LastMessage.ts
    /\ clineMessages' = UpdateLastMessage(text, "false")
    /\ pc' = [pc EXCEPT ![c] = "persisting"]
    /\ call' = [call EXCEPT ![c] = "false"]
    /\ ended' = NoEnd

\* partial === false with no partial to complete, or partial === undefined.
AskNewComplete(c, type, text, partial) ==
    /\ LastIndex < MaxMsgs
    /\ askResponse' = ResponseAtAsk
    /\ askTs' = [askTs EXCEPT ![c] = now]
    /\ lastMessageTs' = now
    /\ clineMessages' = AddToClineMessages(Message(now, "ask", type, text, "undefined"))
    /\ pc' = [pc EXCEPT ![c] = "persisting"]
    /\ call' = [call EXCEPT ![c] = partial]
    /\ ended' = NoEnd

AskBody(c, type, text, partial) ==
    /\ IF partial # "undefined"
       THEN IF partial = "true"
            THEN IF IsUpdatingPreviousPartial("ask", type)
                 THEN AskUpdatePartial(c, type, text)
                 ELSE AskNewPartial(c, type, text)
            ELSE IF IsUpdatingPreviousPartial("ask", type)
                 THEN AskCompletePartial(c, type, text)
                 ELSE AskNewComplete(c, type, text, partial)
       ELSE AskNewComplete(c, type, text, partial)
    /\ track' = TrackAfter("ask", type, partial, clineMessages')

Ask(c, type, text, partial) ==
    /\ pc[c] = "idle"
    /\ IF AbortGuard
       THEN AskAborted(c, partial)
       ELSE AskBody(c, type, text, partial)
    /\ UNCHANGED <<taskVars, now, streamVars>>

\* The await of addToClineMessages returns: throw (#2).
AskPartialAdded(c) ==
    /\ pc[c] = "addingPartial"
    /\ AskEnds(c)
    /\ ended' = "ignored2"
    /\ UNCHANGED <<askVars, taskVars, now, track, streamVars>>

\* The await of addToClineMessages / saveClineMessages returns: pWaitFor starts.
AskPersisted(c) ==
    /\ pc[c] = "persisting"
    /\ pc' = [pc EXCEPT ![c] = "waiting"]
    /\ ended' = NoEnd
    /\ UNCHANGED <<askVars, taskVars, now, askTs, call, track, streamVars>>

\* Mutant: the wait watches the response slot only.
WaitConditionResponseOnly(c) == askResponse # "undefined"

\* The condition pWaitFor polls every 100 ms.
WaitCondition(c) == askResponse # "undefined" \/ lastMessageTs # askTs[c]

\* Mutant: the check after the wait is missing.
IsSupersededUnchecked(c) == FALSE

\* `if (this.lastMessageTs !== askTs) throw ...` after the wait.
IsSuperseded(c) == lastMessageTs # askTs[c]

\* A poll of pWaitFor that finds the condition true, and the rest of ask:
\* throw "Current ask promise was ignored", or return the response and
\* clear the slot.
AskPoll(c) ==
    /\ pc[c] = "waiting"
    /\ WaitCondition(c)
    /\ AskEnds(c)
    /\ IF IsSuperseded(c)
       THEN /\ ended' = "ignored"
            /\ UNCHANGED askResponse
       ELSE /\ ended' = askResponse
            /\ askResponse' = "undefined"
    /\ UNCHANGED <<clineMessages, lastMessageTs, taskVars, now, track, streamVars>>

\* Task.handleWebviewAskResponse
HandleWebviewAskResponse(response) ==
    /\ askResponse' = response
    /\ ended' = NoEnd
    /\ UNCHANGED <<clineMessages, lastMessageTs, taskVars, now, callerVars, track,
                   streamVars>>

(***************************************************************************)
(* Task.say                                                                *)
(***************************************************************************)
SayAborted(type, partial, isNonInteractive) ==
    /\ ended' = "aborted"
    /\ UNCHANGED <<askVars, track>>

SayBody(type, text, partial, isNonInteractive) ==
    /\ Appends("say", type, partial) => LastIndex < MaxMsgs
    /\ clineMessages' = SayMessages(type, text, partial)
    /\ lastMessageTs' = SayTs(type, partial, isNonInteractive)
    /\ track' = TrackAfter("say", type, partial, clineMessages')
    /\ ended' = NoEnd
    /\ UNCHANGED askResponse

Say(type, text, partial, isNonInteractive) ==
    /\ IF AbortGuard
       THEN SayAborted(type, partial, isNonInteractive)
       ELSE SayBody(type, text, partial, isNonInteractive)
    /\ UNCHANGED <<taskVars, now, callerVars, streamVars>>

(***************************************************************************)
(* Task.abortTask and the clock                                            *)
(***************************************************************************)
\* Mutant: the argument is assigned to the field.
AbandonAssigned(isAbandoned) == isAbandoned

\* Mutant: the field is flipped when the argument is true.
AbandonToggled(isAbandoned) == IF isAbandoned THEN ~abandoned ELSE abandoned

\* Lines 957-959: `if (isAbandoned) { this.abandoned = true }`.
Abandon(isAbandoned) == abandoned \/ isAbandoned

AbortTask(isAbandoned) ==
    /\ abandoned' = Abandon(isAbandoned)
    /\ abort' = TRUE
    /\ ended' = NoEnd
    /\ UNCHANGED <<askVars, now, callerVars, track, streamVars>>

Tick ==
    /\ now < MaxTime
    /\ now' = now + 1
    /\ ended' = NoEnd
    /\ UNCHANGED <<askVars, taskVars, callerVars, track, streamVars>>

(***************************************************************************)
(* The fields and locals of the request loop before the loop has started.  *)
(***************************************************************************)
NoLocals ==
    [assistantMessage |-> <<>>, reasoningMessage |-> <<>>, inputTokens |-> 0,
     outputTokens |-> 0, lastApiReqIndex |-> 0, cancelReason |-> "undefined"]

\* An error value of which nothing is read.
NoError == [status |-> 0, errorDetails |-> <<>>]

\* attemptApiRequest before its first call: retryAttempt = 0, no countdown.
\* since is Date.now() - lastApiRequestTime as read at line 1533, in units of
\* 1/Den second (0 once line 1551 has recorded a new start);
\* approvals and answer observe the api_req_failed asks of the stream: how
\* many returned an approval, and what the last one returned.
NoAttempt == [retryAttempt |-> 0, i |-> 0, rateLimitDelay |-> 0,
              error |-> NoError, waited |-> 0, approvals |-> 0,
              answer |-> "none", since |-> 0]

(***************************************************************************)
(* The state of the provider read by attemptApiRequest.  Durations are     *)
(* numbers of seconds; a configured requestDelaySeconds may be a fraction  *)
(* and is held in units of 1/Den second.                                   *)
(***************************************************************************)
Den == 2

\* TaskOptions.consecutiveMistakeLimit when the caller passes none.
DefaultMistakeLimit == 3

\* `language` is "undefined" when no language preference is set, and
\* allowedMaxRequests is 0 when no ceiling is set; providerAlive tells
\* whether providerRef.deref() returns the provider.
Settings(autoApprovalEnabled, alwaysApproveResubmit, requestDelaySeconds, rateLimitSeconds) ==
    [autoApprovalEnabled |-> autoApprovalEnabled,
     alwaysApproveResubmit |-> alwaysApproveResubmit,
     requestDelaySeconds |-> requestDelaySeconds,
     rateLimitSeconds |-> rateLimitSeconds,
     language |-> "undefined",
     allowedMaxRequests |-> 0,
     providerAlive |-> TRUE,
     consecutiveMistakeLimit |-> DefaultMistakeLimit]

\* Automatic resubmission after one second, no rate limit.
DefaultConfig == Settings(TRUE, TRUE, Den, 0)

\* The provider has been collected: providerRef.deref() is undefined and
\* every read of its state gives `{}`.
NoProvider == [Settings(FALSE, FALSE, 0, 0) EXCEPT !.providerAlive = FALSE]

NoObs == [userAborted |-> FALSE, failure |-> "none", requestsAtFailure |-> 0,
          sinceTool |-> 0, leftBy |-> "none", sinceAbort |-> 0,
          definedSinceAbort |-> 0, sinceReject |-> 0, summary |-> "none",
          answeredIn |-> [c \in Callers |-> "idle"]]

\* The content blocks of user messages: the task text of startTask, the
\* nudge formatResponse.noToolsUsed(), formatResponse.tooManyMistakes(text),
\* the result of a tool, and the environment details of line 1121.
TaskBlock == "<task>"
NoToolsUsed == "noToolsUsed"
TooManyMistakes == "tooManyMistakes"
ToolResult == "tool_result"
EnvironmentDetails == "environment_details"
LanguageReminder == "Always respond in"

\* No call of resumePausedTask has been made.
NoResume == [pc |-> "idle", lastMessage |-> "undefined"]

\* The fields and locals of the request loop but for its position and input.
LoopFields ==
    /\ apiConversationHistory = <<>>
    /\ isStreaming = FALSE
    /\ didRejectTool = FALSE
    /\ didAlreadyUseTool = FALSE
    /\ userMessageContentReady = FALSE
    /\ didCompleteReadingStream = FALSE
    /\ didFinishAbortingStream = FALSE
    /\ turn = 1
    /\ locals = NoLocals
    /\ attempt = NoAttempt
    /\ requests = 0
    /\ chunks = 0
    /\ obs = NoObs
    /\ consecutiveMistakeCount = 0
    /\ isPaused = FALSE
    /\ consecutiveAutoApprovedRequestsCount = 0
    /\ pauseInterval = FALSE
    /\ iteration = 1
    /\ resume = NoResume

\* startTask has called initiateTaskLoop with the task text.
LoopInit ==
    /\ LoopFields
    /\ sp = "start"
    /\ userContent = <<TaskBlock>>

(***************************************************************************)
(* The ask/say protocol: any interleaving of ask calls from the async      *)
(* contexts, say calls, operator responses, abortTask and clock ticks.     *)
(***************************************************************************)
\* The fields of a Task after construction.
AskInit ==
    /\ clineMessages = <<>>
    /\ lastMessageTs = UndefinedTs
    /\ askResponse = "undefined"
    /\ abort = FALSE
    /\ abandoned = FALSE
    /\ now = 1
    /\ pc = [c \in Callers |-> "idle"]
    /\ askTs = [c \in Callers |-> UndefinedTs]
    /\ call = [c \in Callers |-> "undefined"]
    /\ ended = NoEnd
    /\ track = NoTrack

TaskInit ==
    /\ AskInit
    /\ LoopInit

\* The task directory of a task that has just been created.
NewTaskDirectory ==
    /\ savedApiMessages = <<>>
    /\ savedTaskMessages = <<>>

Init ==
    /\ TaskInit
    /\ NewTaskDirectory
    /\ config = DefaultConfig

Next ==
    \/ \E c \in Callers, type \in AskTypes, text \in Texts, partial \in Partials :
          Ask(c, type, text, partial)
    \/ \E c \in Callers : AskPartialAdded(c)
    \/ \E c \in Callers : AskPersisted(c)
    \/ \E c \in Callers : AskPoll(c)
    \/ \E response \in Responses : HandleWebviewAskResponse(response)
    \/ \E type \in SayTypes, text \in Texts, partial \in Partials,
          isNonInteractive \in BOOLEAN :
          Say(type, text, partial, isNonInteractive)
    \/ \E isAbandoned \in BOOLEAN : AbortTask(isAbandoned)
    \/ Tick

Spec == Init /\ [][Next]_vars

\* pWaitFor's timer fires, and the awaited persistence calls return.
Fairness ==
    \A c \in Callers :
        /\ WF_vars(AskPoll(c))
        /\ WF_vars(AskPersisted(c))
        /\ WF_vars(AskPartialAdded(c))

FairSpec == Spec /\ Fairness

(***************************************************************************)
(* Task.recursivelyMakeClineRequests and Task.attemptApiRequest.           *)
(*                                                                         *)
(* Strings are sequences of tokens: a text chunk contributes one token,    *)
(* a marker is one token, and concatenation is \o.  The text of the        *)
(* api_req_started message is the record its JSON encodes; a key whose     *)
(* value is undefined (JSON.stringify drops it) holds "undefined".         *)
(* The configuration is the one with automatic resubmission enabled, the   *)
(* diff view is not editing, and no language preference is set.            *)
(***************************************************************************)
MaxTurns == 2
MaxChunks == 3
MaxRetryAttempts == 3
MaxDelay == 20
\* Longest time between the end of a wait and the next read of Date.now(),
\* in units of 1/Den second.
MaxLatency == 2

ChunkTexts == {"text", "tool_use"}
UsageChunks == {[inputTokens |-> 1, outputTokens |-> 2]}

UserInterruptMarker == "[Response interrupted by user]"
ApiErrorMarker == "[Response interrupted by API Error]"
FeedbackMarker == "[Response interrupted by user feedback]"
ToolUseMarker ==
    "[Response interrupted by a tool use result. Only one tool may be used at a time and should be placed at the end of the message.]"
NoResponseFailure == "Failure: I did not provide a response."

ApiMessage(role, content) == [role |-> role, content |-> content]

\* addToApiConversationHistory: the push, which comes before its await.
AddToApiConversationHistory(message) == Append(apiConversationHistory, message)

\* findLastIndex(messages, (m) => m.say === "api_req_started"), 1-based;
\* 0 where the source has -1.
RECURSIVE FindLastApiReqStarted(_, _)
FindLastApiReqStarted(messages, i) ==
    IF i = 0 THEN 0
    ELSE IF messages[i].type = "say" /\ messages[i].sub = "api_req_started"
         THEN i
         ELSE FindLastApiReqStarted(messages, i - 1)

\* The value of tokensIn and tokensOut in a text that has no such key.
NoTokens == -1

\* JSON.stringify({ request }) of the placeholder and of the final request.
ApiReqInfo(request) ==
    [request |-> request, tokensIn |-> NoTokens, tokensOut |-> NoTokens,
     cancelReason |-> "undefined"]

\* updateApiReqMsg(cancelReason): the keys of the parsed text are kept,
\* tokensIn, tokensOut and cancelReason are overwritten.
UpdateApiReqMsg(messages, index, tokensIn, tokensOut, cancelReason) ==
    [messages EXCEPT ![index].text =
        [@ EXCEPT !.tokensIn = tokensIn, !.tokensOut = tokensOut,
                  !.cancelReason = cancelReason]]

\* abortStream: `if (lastMessage && lastMessage.partial) lastMessage.partial = false`
FinalizeLastPartial(messages) ==
    IF Len(messages) > 0 /\ messages[Len(messages)].partial = "true"
    THEN [messages EXCEPT ![Len(messages)].partial = "false"]
    ELSE messages

\* The text abortStream appends after assistantMessage.
InterruptMarker(cancelReason) ==
    IF cancelReason = "streaming_failed" THEN ApiErrorMarker ELSE UserInterruptMarker

\* Mutant: any content block counts as a tool use.
DidToolUseAnyBlock(assistantMessage) == Len(assistantMessage) > 0

\* assistantMessageContent.some((block) => block.type === "tool_use")
DidToolUse(assistantMessage) ==
    \E i \in 1..Len(assistantMessage) : assistantMessage[i] = "tool_use"

askSide == <<askResponse, now, pc, askTs, call, ended, track, config, turnVars,
            storeVars>>

\* The call throws inside the try block of recursivelyMakeClineRequests
\* (outer catch: return true), or the outermost call throws at its guard.
ReturnedTrue == "returnedTrue"
ReturnedFalse == "returnedFalse"
Thrown == "thrown"

LoopEnded == "loopEnded"

\* The async context of the request loop, as a caller of ask.
LoopCaller == 1

\* An exception before the try block of line 1148: the outermost call
\* rejects, a nested call throws inside the try block of its caller, whose
\* catch block returns true.
ThrowBeforeTry == sp' = IF turn = 1 THEN Thrown ELSE ReturnedTrue

\* Lines 1101-1107: say("api_req_started") with the placeholder text, up to
\* the await in say; the abort guard of say throws.
SayApiReqStarted ==
    IF AbortGuard
    THEN /\ ThrowBeforeTry
         /\ UNCHANGED <<clineMessages, lastMessageTs>>
    ELSE /\ clineMessages' = SayMessages("api_req_started", ApiReqInfo("loading"), "undefined")
         /\ lastMessageTs' = SayTs("api_req_started", "undefined", FALSE)
         /\ sp' = "loadingContext"

\* Lines 1076-1107: `if (this.isPaused && provider)` waitForResume sets its
\* timer; otherwise the request is announced.
PauseCheck ==
    IF isPaused /\ config.providerAlive
    THEN /\ pauseInterval' = TRUE
         /\ sp' = "waitingForResume"
         /\ UNCHANGED <<clineMessages, lastMessageTs>>
    ELSE /\ SayApiReqStarted
         /\ UNCHANGED pauseInterval

\* `this.consecutiveMistakeCount >= this.consecutiveMistakeLimit`
MistakeLimitReached == consecutiveMistakeCount >= config.consecutiveMistakeLimit

\* Lines 1008-1107, up to the first await.  `while (!this.abort)` of
\* initiateTaskLoop and the abort guard of line 1045 run in one job for the
\* outermost call; a nested call throws at the guard.  Then the
\* mistake_limit_reached ask up to its await, or the pause check.
StartTurn ==
    /\ sp = "start"
    /\ IF abort
       THEN /\ sp' = IF turn = 1 THEN LoopEnded ELSE ReturnedTrue
            /\ UNCHANGED <<askVars, callerVars, pauseInterval>>
       ELSE IF MistakeLimitReached
       THEN /\ pc[LoopCaller] = "idle"
            /\ askResponse' = "undefined"
            /\ askTs' = [askTs EXCEPT ![LoopCaller] = now]
            /\ lastMessageTs' = now
            /\ clineMessages' = AddToClineMessages(
                   Message(now, "ask", "mistake_limit_reached", "guidance", "undefined"))
            /\ pc' = [pc EXCEPT ![LoopCaller] = "persisting"]
            /\ call' = [call EXCEPT ![LoopCaller] = "undefined"]
            /\ sp' = "mistakeLimit"
            /\ UNCHANGED pauseInterval
       ELSE /\ PauseCheck
            /\ UNCHANGED <<askResponse, callerVars>>
    /\ UNCHANGED <<taskVars, now, ended, track, config, consecutiveMistakeCount,
                   isPaused, consecutiveAutoApprovedRequestsCount, userContent, iteration, resume, storeVars,
                   apiConversationHistory, taskFlags, turn,
                   locals, attempt, requests, chunks, obs>>

\* Mutant: every response is taken to carry guidance.
HasMessageContentAlways(response) == TRUE

\* `if (response === "messageResponse")` at line 1055.
HasMessageContent(response) == response = "messageResponse"

\* pWaitFor of the mistake_limit_reached ask finds its condition true; the
\* rest of ask, then lines 1055-1107 up to the next await: with message
\* content the guidance is pushed and say("user_feedback") runs up to its
\* await; without, the count is reset and the pause check follows.
MistakeLimitAnswered ==
    /\ sp = "mistakeLimit"
    /\ pc[LoopCaller] = "waiting"
    /\ WaitCondition(LoopCaller)
    /\ AskEnds(LoopCaller)
    /\ IF IsSuperseded(LoopCaller)
       THEN /\ ThrowBeforeTry
            /\ UNCHANGED <<askVars, consecutiveMistakeCount, pauseInterval, userContent>>
       ELSE /\ askResponse' = "undefined"
            /\ IF HasMessageContent(askResponse)
               THEN /\ userContent' = userContent \o <<TooManyMistakes>>
                    /\ IF AbortGuard
                       THEN /\ ThrowBeforeTry
                            /\ UNCHANGED <<clineMessages, lastMessageTs>>
                       ELSE /\ clineMessages' = SayMessages("user_feedback", "guidance", "undefined")
                            /\ lastMessageTs' = SayTs("user_feedback", "undefined", FALSE)
                            /\ sp' = "feedbackSaid"
                    /\ UNCHANGED <<consecutiveMistakeCount, pauseInterval>>
               ELSE /\ consecutiveMistakeCount' = 0
                    /\ PauseCheck
                    /\ UNCHANGED userContent
    /\ UNCHANGED <<taskVars, now, ended, track, config, isPaused, consecutiveAutoApprovedRequestsCount, iteration, resume, storeVars,
                   apiConversationHistory, taskFlags, turn,
                   locals, attempt, requests, chunks, obs>>

\* The await of say("user_feedback") returns: line 1071, then the pause
\* check.
FeedbackSaid ==
    /\ sp = "feedbackSaid"
    /\ consecutiveMistakeCount' = 0
    /\ PauseCheck
    /\ UNCHANGED <<askResponse, taskVars, now, callerVars, ended, track, config,
                   isPaused, consecutiveAutoApprovedRequestsCount, userContent, iteration, resume, storeVars,
                   apiConversationHistory, taskFlags, turn,
                   locals, attempt, requests, chunks, obs>>

\* Lines 994-1000: the timer of waitForResume fires and finds the task
\* released; the timer is cleared and the promise resolved.
WaitForResumeReturns ==
    /\ sp = "waitingForResume"
    /\ pauseInterval
    /\ ~isPaused
    /\ pauseInterval' = FALSE
    /\ sp' = "resumed"
    /\ UNCHANGED <<askVars, taskVars, now, callerVars, ended, track,
                   config, consecutiveMistakeCount, isPaused, consecutiveAutoApprovedRequestsCount, userContent,
                   iteration, resume, storeVars, apiConversationHistory, taskFlags, turn,
                   locals, attempt, requests, chunks, obs>>

\* Lines 1080-1107: the mode has been read (and switched back); the
\* request is announced.
RequestStarts ==
    /\ sp = "resumed"
    /\ SayApiReqStarted
    /\ UNCHANGED <<taskVars, askSide, apiConversationHistory, taskFlags, turn,
                   locals, attempt, requests, chunks, obs>>

\* `if (language)` at line 1125.
HasLanguage == config.language # "undefined"

\* Lines 1109-1145: mentions and environment details have been resolved;
\* the language reminder, if a language is set, and the user message are
\* appended, and the placeholder's text is replaced.
ContextLoaded ==
    /\ sp = "loadingContext"
    /\ LET finalUserContent == userContent \o <<EnvironmentDetails>>
           reminder == IF HasLanguage
                       THEN <<ApiMessage("user", <<LanguageReminder>>)>>
                       ELSE <<>>
       IN  apiConversationHistory' =
               apiConversationHistory \o reminder
                   \o <<ApiMessage("user", finalUserContent)>>
    /\ LET index == FindLastApiReqStarted(clineMessages, Len(clineMessages))
       IN /\ locals' = [NoLocals EXCEPT !.lastApiReqIndex = index]
          /\ clineMessages' = [clineMessages EXCEPT ![index].text = ApiReqInfo("final")]
    /\ sp' = "resetting"
    /\ UNCHANGED <<lastMessageTs, taskVars, askSide, taskFlags, turn, attempt,
                   requests, chunks, obs>>

\* Lines 1226-1244: reset streaming state; the stream is created (a
\* generator: nothing of attemptApiRequest has run yet).
ResetStreamingState ==
    /\ sp = "resetting"
    /\ didCompleteReadingStream' = FALSE
    /\ userMessageContentReady' = FALSE
    /\ didRejectTool' = FALSE
    /\ didAlreadyUseTool' = FALSE
    /\ isStreaming' = TRUE
    /\ attempt' = NoAttempt
    /\ obs' = NoObs
    /\ sp' = "requesting"
    /\ UNCHANGED <<askVars, taskVars, askSide,
                   apiConversationHistory, didFinishAbortingStream, turn, locals,
                   requests, chunks>>

\* ---- leaving the for-await loop ------------------------------------------
\* abortStream(cancelReason) up to the await in addToApiConversationHistory.
BeginAbortStream(l, o, cancelReason, leftBy) ==
    /\ clineMessages' = FinalizeLastPartial(clineMessages)
    /\ apiConversationHistory' = AddToApiConversationHistory(
           ApiMessage("assistant", l.assistantMessage \o <<InterruptMarker(cancelReason)>>))
    /\ locals' = [l EXCEPT !.cancelReason = cancelReason]
    /\ sp' = "abortStreamAppended"
    /\ obs' = [o EXCEPT !.leftBy = leftBy]
    /\ UNCHANGED <<isStreaming, didCompleteReadingStream>>

\* finally, then the throw of line 1349, caught at line 1439.
LeaveAborted(l, o, leftBy) ==
    /\ isStreaming' = FALSE
    /\ sp' = ReturnedTrue
    /\ locals' = l
    /\ obs' = [o EXCEPT !.leftBy = leftBy]
    /\ UNCHANGED <<clineMessages, apiConversationHistory, didCompleteReadingStream>>

\* Lines 1344-1377: finally, the abort check, updateApiReqMsg(), up to the
\* await of saveClineMessages.
FinishStream(l, o, leftBy) ==
    IF abort \/ abandoned
    THEN LeaveAborted(l, o, leftBy)
    ELSE /\ isStreaming' = FALSE
         /\ didCompleteReadingStream' = TRUE
         /\ clineMessages' = UpdateApiReqMsg(clineMessages, l.lastApiReqIndex,
                                 l.inputTokens, l.outputTokens, "undefined")
         /\ sp' = "finalized"
         /\ locals' = l
         /\ obs' = [o EXCEPT !.leftBy = leftBy]
         /\ UNCHANGED apiConversationHistory

\* Mutant: the check of didRejectTool is missing.
RejectCheckMissing == FALSE

\* `if (this.didRejectTool)` at line 1300.
RejectCheck == didRejectTool

\* Mutant: the check of didAlreadyUseTool is missing.
ToolCheckMissing == FALSE

\* `if (this.didAlreadyUseTool)` at line 1315.
ToolCheck == didAlreadyUseTool

\* Lines 1286-1319: the checks that end an iteration of the loop body.
\* Mutant: the abort flag is not looked at after a chunk.
AfterChunkWithoutAbortCheck(l, o) ==
    IF RejectCheck
    THEN FinishStream([l EXCEPT !.assistantMessage = @ \o <<FeedbackMarker>>],
                      o, "feedback")
    ELSE IF ToolCheck
         THEN FinishStream([l EXCEPT !.assistantMessage = @ \o <<ToolUseMarker>>],
                           o, "tool")
         ELSE /\ sp' = "reading"
              /\ locals' = l
              /\ obs' = o
              /\ UNCHANGED <<clineMessages, apiConversationHistory, isStreaming,
                             didCompleteReadingStream>>

AfterChunk(l, o) ==
    IF abort
    THEN IF ~abandoned
         THEN BeginAbortStream(l, o, "user_cancelled", "abort")
         ELSE LeaveAborted(l, o, "abort")
    ELSE IF RejectCheck
         THEN FinishStream([l EXCEPT !.assistantMessage = @ \o <<FeedbackMarker>>],
                           o, "feedback")
         ELSE IF ToolCheck
              THEN FinishStream([l EXCEPT !.assistantMessage = @ \o <<ToolUseMarker>>],
                                o, "tool")
              ELSE /\ sp' = "reading"
                   /\ locals' = l
                   /\ obs' = o
                   /\ UNCHANGED <<clineMessages, apiConversationHistory, isStreaming,
                                  didCompleteReadingStream>>

\* Mutant: the catch block does not look at abandoned.
CatchStreamErrorOfAbandoned(l, o) ==
    /\ abort' = TRUE
    /\ BeginAbortStream(l, o, "streaming_failed", "error")

\* Mutant: the catch block does not cancel the task.
CatchStreamErrorKeepsTask(l, o) ==
    /\ abort' = abort
    /\ BeginAbortStream(l, o, "streaming_failed", "error")

\* Lines 1321-1342: the catch block of the loop.  abortTask() is not
\* awaited: its assignment of abort comes before its first await.
CatchStreamError(l, o) ==
    IF ~abandoned
    THEN /\ abort' = TRUE
         /\ BeginAbortStream(l, o, "streaming_failed", "error")
    ELSE /\ abort' = abort
         /\ LeaveAborted(l, o, "error")

\* ---- Task.attemptApiRequest ----------------------------------------------
Max(a, b) == IF a >= b THEN a ELSE b

\* Math.ceil(a / d) for d > 0.
CeilDiv(a, d) == -((-a) \div d)

\* Math.pow(2, n)
RECURSIVE Pow2(_)
Pow2(n) == IF n = 0 THEN 1 ELSE 2 * Pow2(n - 1)

\* The fallback of `requestDelaySeconds || 5`.
DefaultRequestDelaySeconds == 5

\* `const baseDelay = requestDelaySeconds || 5`, in units of 1/Den second.
BaseDelay(requestDelaySeconds) ==
    IF requestDelaySeconds = 0 THEN DefaultRequestDelaySeconds * Den
    ELSE requestDelaySeconds

\* Mutant: the delay grows linearly with the attempt.
LinearBackoff(baseDelay, retryAttempt) ==
    CeilDiv(baseDelay * (retryAttempt + 1), Den)

\* Math.ceil(baseDelay * Math.pow(2, retryAttempt))
ExponentialBackoff(baseDelay, retryAttempt) ==
    CeilDiv(baseDelay * Pow2(retryAttempt), Den)

\* A string is the sequence of its characters.
Digits == <<"0", "1", "2", "3", "4", "5", "6", "7", "8", "9">>
IsDigit(c) == \E k \in 1..Len(Digits) : Digits[k] = c
DigitValue(c) == (CHOOSE k \in 1..Len(Digits) : Digits[k] = c) - 1

\* retryDelay.match(/^(\d+)s$/): the digits captured, <<>> when no match.
MatchSeconds(retryDelay) ==
    IF /\ Len(retryDelay) >= 2
       /\ retryDelay[Len(retryDelay)] = "s"
       /\ \A k \in 1..(Len(retryDelay) - 1) : IsDigit(retryDelay[k])
    THEN SubSeq(retryDelay, 1, Len(retryDelay) - 1)
    ELSE <<>>

\* Number(match[1]) of a string of digits.
RECURSIVE ToNumber(_)
ToNumber(digits) ==
    IF digits = <<>> THEN 0
    ELSE 10 * ToNumber(SubSeq(digits, 1, Len(digits) - 1))
         + DigitValue(digits[Len(digits)])

RetryInfoType == "type.googleapis.com/google.rpc.RetryInfo"

\* error.errorDetails?.find((detail) => detail["@type"] === RetryInfo): the
\* index of the first such detail, 0 when there is none.
RECURSIVE FindRetryInfo(_, _)
FindRetryInfo(errorDetails, k) ==
    IF k > Len(errorDetails) THEN 0
    ELSE IF errorDetails[k].type = RetryInfoType THEN k
    ELSE FindRetryInfo(errorDetails, k + 1)

\* `if (error.status === 429) { ... if (geminiRetryDetails) {`
HintApplies(error) ==
    error.status = 429 /\ FindRetryInfo(error.errorDetails, 1) > 0

\* Lines 1639-1653: exponentialDelay after the 429 branch.
ExponentialDelay(error, requestDelaySeconds, retryAttempt) ==
    LET exponentialDelay ==
            ExponentialBackoff(BaseDelay(requestDelaySeconds), retryAttempt)
        k == FindRetryInfo(error.errorDetails, 1)
    IN  IF HintApplies(error)
        THEN LET match == MatchSeconds(error.errorDetails[k].retryDelay)
             IN  IF match # <<>> THEN ToNumber(match) + 1 ELSE exponentialDelay
        ELSE exponentialDelay

\* const finalDelay = Math.max(exponentialDelay, rateLimitDelay)
FinalDelay(error, requestDelaySeconds, retryAttempt, rateLimitDelay) ==
    Max(ExponentialDelay(error, requestDelaySeconds, retryAttempt), rateLimitDelay)

\* Lines 1531-1537, with the times in units of 1/Den second;
\* lastApiRequestTime is set once a request has been issued.
RateLimitDelay(rateLimitSeconds, timeSinceLastRequest) ==
    IF requests > 0
    THEN CeilDiv(Max(0, rateLimitSeconds * Den - timeSinceLastRequest), Den)
    ELSE 0

\* Date.now() - lastApiRequestTime can be any time not shorter than the
\* countdown that has just been waited.
TimesSinceLastRequest ==
    {attempt.waited * Den + latency : latency \in 0..MaxLatency}

\* Lines 1520-1548, up to the first await of the rate-limit countdown or to
\* line 1551.
StartAttempt(timeSinceLastRequest) ==
    /\ sp = "requesting"
    /\ LET rateLimitDelay == RateLimitDelay(config.rateLimitSeconds, timeSinceLastRequest)
           countdown == rateLimitDelay > 0 /\ attempt.retryAttempt = 0
       IN  /\ attempt' = [attempt EXCEPT !.rateLimitDelay = rateLimitDelay,
                                         !.i = IF countdown THEN rateLimitDelay ELSE 0,
                                         !.waited = 0,
                                         !.since = IF requests > 0
                                                   THEN timeSinceLastRequest ELSE 0]
           /\ sp' = IF countdown THEN "rateLimiting" ELSE "creating"
    /\ UNCHANGED <<askVars, taskVars, askSide, apiConversationHistory, taskFlags,
                   turn, locals, requests, chunks, obs>>

\* One round of the rate-limit countdown (lines 1542-1546):
\* say("api_req_retry_delayed", ..., partial = true), whose abort guard
\* throws into the loop's catch block.
RateLimitCountdown ==
    /\ sp = "rateLimiting"
    /\ IF abort
       THEN /\ CatchStreamError(locals, obs)
            /\ UNCHANGED lastMessageTs
       ELSE /\ clineMessages' = SayMessages("api_req_retry_delayed", "rate limiting", "true")
            /\ lastMessageTs' = SayTs("api_req_retry_delayed", "true", FALSE)
            /\ sp' = "rateLimitDelaying"
            /\ UNCHANGED <<abort, apiConversationHistory, isStreaming,
                           didCompleteReadingStream, locals, obs>>
    /\ UNCHANGED <<abandoned, askSide, didRejectTool, didAlreadyUseTool,
                   userMessageContentReady, didFinishAbortingStream, turn,
                   attempt, requests, chunks>>

\* `await delay(1000)` of the rate-limit countdown returns.
RateLimitDelayElapsed ==
    /\ sp = "rateLimitDelaying"
    /\ attempt' = [attempt EXCEPT !.i = @ - 1, !.waited = @ + 1]
    /\ sp' = IF attempt.i > 1 THEN "rateLimiting" ELSE "creating"
    /\ UNCHANGED <<askVars, taskVars, askSide, apiConversationHistory, taskFlags,
                   turn, locals, requests, chunks, obs>>

\* Mutant: the ceiling is never exceeded.
ExceedsMaxRequestsNever(count) == FALSE

\* `const maxRequests = allowedMaxRequests || Infinity` and the comparison
\* at line 1612.
ExceedsMaxRequests(count) ==
    config.allowedMaxRequests # 0 /\ count > config.allowedMaxRequests

\* Lines 1615-1617: the count after the ask has been answered.
CountAfterAnswer(response) ==
    IF response = "yesButtonClicked" THEN 0 ELSE consecutiveAutoApprovedRequestsCount

\* Lines 1551-1631: lastApiRequestTime and the increment of the counter;
\* then, the ceiling exceeded, ask("auto_approval_max_req_reached") up to
\* its first await (its abort guard throws into the loop's catch block),
\* and otherwise api.createMessage and the first iterator.next().
IssueRequest ==
    /\ sp = "creating"
    /\ pc[LoopCaller] = "idle"
    /\ attempt' = [attempt EXCEPT !.since = 0]
    /\ consecutiveAutoApprovedRequestsCount' = consecutiveAutoApprovedRequestsCount + 1
    /\ IF ExceedsMaxRequests(consecutiveAutoApprovedRequestsCount + 1)
       THEN IF AbortGuard
            THEN /\ CatchStreamError(locals, obs)
                 /\ UNCHANGED <<lastMessageTs, askResponse, callerVars, requests>>
            ELSE /\ askResponse' = "undefined"
                 /\ askTs' = [askTs EXCEPT ![LoopCaller] = now]
                 /\ lastMessageTs' = now
                 /\ clineMessages' = AddToClineMessages(
                        Message(now, "ask", "auto_approval_max_req_reached", "count",
                                "undefined"))
                 /\ pc' = [pc EXCEPT ![LoopCaller] = "persisting"]
                 /\ call' = [call EXCEPT ![LoopCaller] = "undefined"]
                 /\ sp' = "awaitingMaxRequests"
                 /\ UNCHANGED <<abort, apiConversationHistory, isStreaming,
                                didCompleteReadingStream, locals, obs, requests>>
       ELSE /\ requests' = requests + 1
            /\ sp' = "firstChunk"
            /\ UNCHANGED <<askVars, callerVars, abort, apiConversationHistory,
                           isStreaming, didCompleteReadingStream, locals, obs>>
    /\ UNCHANGED <<abandoned, now, ended, track, config, consecutiveMistakeCount,
                   isPaused, pauseInterval, userContent, iteration, resume,
                   storeVars, didRejectTool, didAlreadyUseTool,
                   userMessageContentReady, didFinishAbortingStream, turn,
                   chunks>>

\* pWaitFor of the auto_approval_max_req_reached ask finds its condition
\* true; the rest of ask, then lines 1615-1631: the reset of the counter on
\* an approval, api.createMessage and the first iterator.next().
MaxRequestsAnswered ==
    /\ sp = "awaitingMaxRequests"
    /\ pc[LoopCaller] = "waiting"
    /\ WaitCondition(LoopCaller)
    /\ AskEnds(LoopCaller)
    /\ IF IsSuperseded(LoopCaller)
       THEN /\ CatchStreamError(locals, obs)
            /\ UNCHANGED <<lastMessageTs, askResponse, requests,
                           consecutiveAutoApprovedRequestsCount>>
       ELSE /\ askResponse' = "undefined"
            /\ consecutiveAutoApprovedRequestsCount' = CountAfterAnswer(askResponse)
            /\ requests' = requests + 1
            /\ sp' = "firstChunk"
            /\ UNCHANGED <<clineMessages, lastMessageTs, abort, apiConversationHistory,
                           isStreaming, didCompleteReadingStream, locals, obs>>
    /\ UNCHANGED <<abandoned, now, ended, track, config, consecutiveMistakeCount,
                   isPaused, pauseInterval, userContent, iteration, resume,
                   storeVars, didRejectTool, didAlreadyUseTool,
                   userMessageContentReady, didFinishAbortingStream, turn, attempt,
                   chunks>>

\* `if (autoApprovalEnabled && alwaysApproveResubmit)` at line 1638.
AutoRetry == config.autoApprovalEnabled /\ config.alwaysApproveResubmit

\* The first iterator.next() throws error: with automatic resubmission the
\* retry delay is computed (lines 1638-1656); without, the failure is to be
\* put to the operator (line 1683).
FirstChunkFails(error) ==
    /\ sp = "firstChunk"
    /\ IF AutoRetry
       THEN /\ attempt.retryAttempt < MaxRetryAttempts
            /\ LET finalDelay == FinalDelay(error, config.requestDelaySeconds,
                                    attempt.retryAttempt, attempt.rateLimitDelay)
               IN  /\ finalDelay <= MaxDelay
                   /\ attempt' = [attempt EXCEPT !.i = finalDelay, !.error = error,
                                                 !.waited = 0]
            /\ sp' = "backoff"
       ELSE /\ requests <= MaxRetryAttempts
            /\ attempt' = [attempt EXCEPT !.error = error, !.waited = 0]
            /\ sp' = "failed"
    /\ UNCHANGED <<askVars, taskVars, askSide, apiConversationHistory, taskFlags,
                   turn, locals, requests, chunks, obs>>

\* ask("api_req_failed", errorMsg) up to its first await: the abort guard
\* throws into the loop's catch block, or the atomic ask is appended.
AskApiReqFailed ==
    /\ sp = "failed"
    /\ pc[LoopCaller] = "idle"
    /\ IF AbortGuard
       THEN /\ CatchStreamError(locals, obs)
            /\ UNCHANGED <<lastMessageTs, askResponse, callerVars>>
       ELSE /\ askResponse' = "undefined"
            /\ askTs' = [askTs EXCEPT ![LoopCaller] = now]
            /\ lastMessageTs' = now
            /\ clineMessages' = AddToClineMessages(
                   Message(now, "ask", "api_req_failed", "error", "undefined"))
            /\ pc' = [pc EXCEPT ![LoopCaller] = "persisting"]
            /\ call' = [call EXCEPT ![LoopCaller] = "undefined"]
            /\ sp' = "awaitingApproval"
            /\ UNCHANGED <<abort, apiConversationHistory, isStreaming,
                           didCompleteReadingStream, locals, obs>>
    /\ UNCHANGED <<abandoned, now, ended, track, config, turnVars, storeVars, didRejectTool,
                   didAlreadyUseTool, userMessageContentReady,
                   didFinishAbortingStream, turn, attempt, requests, chunks>>

\* Mutant: every answer counts as an approval.
IsApprovalAlways(response) == TRUE

\* `response !== "yesButtonClicked"` at line 1685, negated.
IsApproval(response) == response = "yesButtonClicked"

\* pWaitFor of the api_req_failed ask finds its condition true; the rest of
\* ask, then lines 1685-1696: throw unless approved, say("api_req_retried")
\* up to its await, after which attemptApiRequest() starts over.
ApiReqFailedAnswered ==
    /\ sp = "awaitingApproval"
    /\ pc[LoopCaller] = "waiting"
    /\ WaitCondition(LoopCaller)
    /\ AskEnds(LoopCaller)
    /\ IF IsSuperseded(LoopCaller)
       THEN /\ CatchStreamError(locals, obs)
            /\ attempt' = [attempt EXCEPT !.answer = "ignored"]
            /\ UNCHANGED <<lastMessageTs, askResponse>>
       ELSE /\ askResponse' = "undefined"
            /\ IF ~IsApproval(askResponse)
               THEN /\ CatchStreamError(locals, obs)
                    /\ attempt' = [attempt EXCEPT !.answer = askResponse]
                    /\ UNCHANGED lastMessageTs
               ELSE IF AbortGuard
               THEN /\ CatchStreamError(locals, obs)
                    /\ attempt' = [attempt EXCEPT !.answer = "aborted"]
                    /\ UNCHANGED lastMessageTs
               ELSE /\ clineMessages' = SayMessages("api_req_retried", "undefined", "undefined")
                    /\ lastMessageTs' = SayTs("api_req_retried", "undefined", FALSE)
                    /\ attempt' = [attempt EXCEPT !.retryAttempt = 0,
                                                  !.approvals = @ + 1,
                                                  !.answer = askResponse]
                    /\ sp' = "requesting"
                    /\ UNCHANGED <<abort, apiConversationHistory, isStreaming,
                                   didCompleteReadingStream, locals, obs>>
    /\ UNCHANGED <<abandoned, now, ended, track, config, turnVars, storeVars, didRejectTool,
                   didAlreadyUseTool, userMessageContentReady,
                   didFinishAbortingStream, turn, requests, chunks>>

\* One round of the countdown: say("api_req_retry_delayed", ..., partial =
\* true), whose abort guard throws into the loop's catch block; or, the
\* countdown over, the same with partial = false and the recursive call.
RetryCountdown ==
    /\ sp = "backoff"
    /\ IF abort
       THEN /\ CatchStreamError(locals, obs)
            /\ UNCHANGED <<lastMessageTs, attempt>>
       ELSE /\ clineMessages' = SayMessages("api_req_retry_delayed", "retrying",
                                    IF attempt.i > 0 THEN "true" ELSE "false")
            /\ lastMessageTs' = SayTs("api_req_retry_delayed",
                                    IF attempt.i > 0 THEN "true" ELSE "false", FALSE)
            /\ IF attempt.i > 0
               THEN /\ sp' = "delaying"
                    /\ UNCHANGED attempt
               ELSE /\ sp' = "requesting"
                    /\ attempt' = [attempt EXCEPT !.retryAttempt = @ + 1]
            /\ UNCHANGED <<abort, apiConversationHistory, isStreaming,
                           didCompleteReadingStream, locals, obs>>
    /\ UNCHANGED <<abandoned, askSide, didRejectTool, didAlreadyUseTool,
                   userMessageContentReady, didFinishAbortingStream, turn,
                   requests, chunks>>

\* `await delay(1000)` returns.
RetryDelayElapsed ==
    /\ sp = "delaying"
    /\ attempt' = [attempt EXCEPT !.i = @ - 1, !.waited = @ + 1]
    /\ sp' = "backoff"
    /\ UNCHANGED <<askVars, taskVars, askSide, apiConversationHistory, taskFlags,
                   turn, locals, requests, chunks, obs>>

\* ---- the loop body --------------------------------------------------------
AwaitingChunk == sp \in {"firstChunk", "reading"}

\* A defined chunk has been received.
Received(o) ==
    [o EXCEPT !.sinceTool = IF didAlreadyUseTool THEN @ + 1 ELSE @,
              !.sinceAbort = IF abort THEN @ + 1 ELSE @,
              !.definedSinceAbort = IF abort THEN @ + 1 ELSE @,
              !.sinceReject = IF didRejectTool /\ ~abort THEN @ + 1 ELSE @]

\* `if (!chunk) continue`
UndefinedChunk ==
    /\ AwaitingChunk
    /\ chunks < MaxChunks
    /\ chunks' = chunks + 1
    /\ sp' = "reading"
    /\ obs' = [obs EXCEPT !.sinceAbort = IF abort THEN @ + 1 ELSE @]
    /\ UNCHANGED <<askVars, taskVars, askSide, apiConversationHistory, taskFlags,
                   turn, locals, attempt, requests>>

\* case "text", then the checks.  Each token is a content block of its
\* own, so the parsed content grows with every text chunk.
TextChunk(text) ==
    /\ AwaitingChunk
    /\ chunks < MaxChunks
    /\ chunks' = chunks + 1
    /\ userMessageContentReady' = FALSE
    /\ AfterChunk([locals EXCEPT !.assistantMessage = Append(@, text)], Received(obs))
    /\ UNCHANGED <<lastMessageTs, taskVars, askSide, didRejectTool, didAlreadyUseTool,
                   didFinishAbortingStream, turn, attempt, requests>>

\* case "usage", then the checks.
UsageChunk(usage) ==
    /\ AwaitingChunk
    /\ chunks < MaxChunks
    /\ chunks' = chunks + 1
    /\ AfterChunk([locals EXCEPT !.inputTokens = @ + usage.inputTokens,
                                 !.outputTokens = @ + usage.outputTokens],
                  Received(obs))
    /\ UNCHANGED <<lastMessageTs, taskVars, askSide, didRejectTool, didAlreadyUseTool,
                   userMessageContentReady, didFinishAbortingStream, turn, attempt,
                   requests>>

\* case "reasoning": say("reasoning", reasoningMessage, undefined, true) up
\* to its await; its abort guard throws into the catch block.
ReasoningChunk ==
    /\ AwaitingChunk
    /\ chunks < MaxChunks
    /\ chunks' = chunks + 1
    /\ LET l == [locals EXCEPT !.reasoningMessage = Append(@, "reasoning")]
       IN IF AbortGuard
          THEN /\ CatchStreamError(l, Received(obs))
               /\ UNCHANGED lastMessageTs
          ELSE /\ clineMessages' = SayMessages("reasoning", l.reasoningMessage, "true")
               /\ lastMessageTs' = SayTs("reasoning", "true", FALSE)
               /\ locals' = l
               /\ obs' = Received(obs)
               /\ sp' = "sayingReasoning"
               /\ UNCHANGED <<abort, apiConversationHistory, isStreaming,
                              didCompleteReadingStream>>
    /\ UNCHANGED <<abandoned, askSide, didRejectTool, didAlreadyUseTool,
                   userMessageContentReady, didFinishAbortingStream, turn, attempt,
                   requests>>

\* The await of say returns: the checks.
ReasoningSaid ==
    /\ sp = "sayingReasoning"
    /\ AfterChunk(locals, obs)
    /\ UNCHANGED <<lastMessageTs, taskVars, askSide, didRejectTool, didAlreadyUseTool,
                   userMessageContentReady, didFinishAbortingStream, turn, attempt,
                   requests, chunks>>

\* The iterator is done.
StreamEnds ==
    /\ sp = "reading"
    /\ FinishStream(locals, obs, "end")
    /\ UNCHANGED <<lastMessageTs, taskVars, askSide, didRejectTool, didAlreadyUseTool,
                   userMessageContentReady, didFinishAbortingStream, turn, attempt,
                   requests, chunks>>

\* iterator.next() throws after the first chunk was yielded.
StreamFails ==
    /\ sp = "reading"
    /\ CatchStreamError(locals, [obs EXCEPT !.failure = IF abandoned THEN "abandoned" ELSE "failed",
                                            !.requestsAtFailure = requests])
    /\ UNCHANGED <<lastMessageTs, abandoned, askSide, didRejectTool, didAlreadyUseTool,
                   userMessageContentReady, didFinishAbortingStream, turn, attempt,
                   requests, chunks>>

\* abortStream: addToApiConversationHistory has returned;
\* updateApiReqMsg(cancelReason), up to the await of saveClineMessages.
AbortStreamAppended ==
    /\ sp = "abortStreamAppended"
    /\ clineMessages' = UpdateApiReqMsg(clineMessages, locals.lastApiReqIndex,
                            locals.inputTokens, locals.outputTokens, locals.cancelReason)
    /\ sp' = "abortStreamSaving"
    /\ UNCHANGED <<lastMessageTs, taskVars, askSide, apiConversationHistory, taskFlags,
                   turn, locals, attempt, requests, chunks, obs>>

\* abortStream: saveClineMessages has returned; didFinishAbortingStream is
\* set, and the loop is left (break, or the end of the catch block).
AbortStreamSaved ==
    /\ sp = "abortStreamSaving"
    /\ didFinishAbortingStream' = TRUE
    /\ FinishStream(locals, obs, obs.leftBy)
    /\ UNCHANGED <<lastMessageTs, taskVars, askSide, didRejectTool, didAlreadyUseTool,
                   userMessageContentReady, turn, attempt, requests, chunks>>

\* ---- after the loop -------------------------------------------------------
\* Mutant: every stream counts as one with assistant text.
HasAssistantTextAlways(l) == TRUE

\* `if (assistantMessage.length > 0)` at line 1386.
HasAssistantText(l) == Len(l.assistantMessage) > 0

\* Lines 1377-1430: the awaits after updateApiReqMsg() have returned.  A
\* non-empty assistantMessage is appended to the history; otherwise
\* say("error") runs up to its await, or its abort guard throws.
Finalized ==
    /\ sp = "finalized"
    /\ IF HasAssistantText(locals)
       THEN /\ apiConversationHistory' = AddToApiConversationHistory(
                   ApiMessage("assistant", locals.assistantMessage))
            /\ sp' = "waitReady"
            /\ UNCHANGED <<clineMessages, lastMessageTs>>
       ELSE /\ IF AbortGuard
               THEN /\ sp' = ReturnedTrue
                    /\ UNCHANGED <<clineMessages, lastMessageTs>>
               ELSE /\ clineMessages' = SayMessages("error", "Unexpected API Response", "undefined")
                    /\ lastMessageTs' = SayTs("error", "undefined", FALSE)
                    /\ sp' = "sayingError"
            /\ UNCHANGED apiConversationHistory
    /\ UNCHANGED <<taskVars, askSide, taskFlags, turn, locals, attempt, requests,
                   chunks, obs>>

\* Lines 1432-1438: the failure placeholder, and return false.
ErrorSaid ==
    /\ sp = "sayingError"
    /\ apiConversationHistory' = AddToApiConversationHistory(
           ApiMessage("assistant", <<NoResponseFailure>>))
    /\ sp' = ReturnedFalse
    /\ UNCHANGED <<askVars, taskVars, askSide, taskFlags, turn, locals, attempt,
                   requests, chunks, obs>>

\* Lines 1410-1421: pWaitFor(() => this.userMessageContentReady) is over,
\* and the recursive call begins.
NextTurn ==
    /\ sp = "waitReady"
    /\ userMessageContentReady
    /\ turn < MaxTurns
    /\ turn' = turn + 1
    /\ IF DidToolUse(locals.assistantMessage)
       THEN /\ userContent' = <<ToolResult>>
            /\ UNCHANGED consecutiveMistakeCount
       ELSE /\ userContent' = <<NoToolsUsed>>
            /\ consecutiveMistakeCount' = consecutiveMistakeCount + 1
    /\ sp' = "start"
    /\ UNCHANGED <<askVars, taskVars, now, callerVars, ended, track,
                   config, isPaused, consecutiveAutoApprovedRequestsCount, pauseInterval, iteration, resume, storeVars,
                   apiConversationHistory, taskFlags,
                   locals, attempt, requests, chunks, obs>>

\* ---- the environment of the loop ------------------------------------------
\* (No job runs between the return of an iteration and the guard of the
\* next one.)
LoopRuns ==
    /\ sp \notin {ReturnedTrue, ReturnedFalse, Thrown, LoopEnded}
    /\ ~(sp = "start" /\ turn = 1 /\ iteration > 1)

ReadingStream == isStreaming /\ sp \in {"reading", "sayingReasoning"}

\* Task.abortTask, called while the loop runs.
AbortTaskInLoop(isAbandoned) ==
    /\ LoopRuns
    /\ abandoned' = Abandon(isAbandoned)
    /\ abort' = TRUE
    /\ obs' = [obs EXCEPT !.userAborted = @ \/ (~isAbandoned /\ ~abort /\ ReadingStream)]
    /\ pauseInterval' = FALSE
    /\ UNCHANGED <<askVars, now, callerVars, ended, track, config,
                   consecutiveMistakeCount, isPaused, consecutiveAutoApprovedRequestsCount, userContent, iteration,
                   resume, storeVars, apiConversationHistory, taskFlags, loopVars>>

\* presentAssistantMessage, started by the loop body and not awaited: while
\* the loop is suspended it executes a tool the text asks for, or meets the
\* operator's rejection of it, and at last reports the content presented.
Presenting == sp \in {"reading", "sayingReasoning"}

PresentToolResult ==
    /\ Presenting
    /\ DidToolUse(locals.assistantMessage)
    /\ ~didAlreadyUseTool
    /\ didAlreadyUseTool' = TRUE
    /\ UNCHANGED <<askVars, taskVars, askSide, apiConversationHistory, isStreaming,
                   didRejectTool, userMessageContentReady, didCompleteReadingStream,
                   didFinishAbortingStream, loopVars, obs>>

PresentToolRejected ==
    /\ Presenting
    /\ DidToolUse(locals.assistantMessage)
    /\ ~didRejectTool
    /\ didRejectTool' = TRUE
    /\ UNCHANGED <<askVars, taskVars, askSide, apiConversationHistory, isStreaming,
                   didAlreadyUseTool, userMessageContentReady, didCompleteReadingStream,
                   didFinishAbortingStream, loopVars, obs>>

PresentationDone ==
    /\ sp = "waitReady"
    /\ ~userMessageContentReady
    /\ userMessageContentReady' = TRUE
    /\ UNCHANGED <<askVars, taskVars, askSide, apiConversationHistory, isStreaming,
                   didRejectTool, didAlreadyUseTool, didCompleteReadingStream,
                   didFinishAbortingStream, loopVars, obs>>

\* The errors a first chunk fails with.
Detail(type, retryDelay) == [type |-> type, retryDelay |-> retryDelay]
Failure(status, errorDetails) == [status |-> status, errorDetails |-> errorDetails]

StreamErrors == {Failure(500, <<>>)}

(***************************************************************************)
(* The request loop of one task: the loop's own steps, the chunks and      *)
(* failures of the model backend, the presenter, and abortTask.            *)
(***************************************************************************)
StreamNext ==
    \/ StartTurn
    \/ ContextLoaded
    \/ ResetStreamingState
    \/ \E timeSinceLastRequest \in TimesSinceLastRequest :
          StartAttempt(timeSinceLastRequest)
    \/ IssueRequest
    \/ \E error \in StreamErrors : FirstChunkFails(error)
    \/ RetryCountdown
    \/ RetryDelayElapsed
    \/ UndefinedChunk
    \/ \E text \in ChunkTexts : TextChunk(text)
    \/ \E usage \in UsageChunks : UsageChunk(usage)
    \/ ReasoningChunk
    \/ ReasoningSaid
    \/ StreamEnds
    \/ StreamFails
    \/ AbortStreamAppended
    \/ AbortStreamSaved
    \/ Finalized
    \/ ErrorSaid
    \/ NextTurn
    \/ \E isAbandoned \in BOOLEAN : AbortTaskInLoop(isAbandoned)
    \/ PresentToolResult
    \/ PresentToolRejected
    \/ PresentationDone

StreamSpec == Init /\ [][StreamNext]_vars

(***************************************************************************)
(* initiateTaskLoop, the start of a turn, and the sub-task hand-off.       *)
(***************************************************************************)
MaxIterations == 2

\* Lines 1008-1037: the call of recursivelyMakeClineRequests has returned
\* false; the nudge becomes the next input, the mistake count grows, and
\* `while (!this.abort)` decides.
LoopIterates ==
    /\ sp = ReturnedFalse
    /\ iteration < MaxIterations
    /\ consecutiveMistakeCount' = consecutiveMistakeCount + 1
    /\ IF abort
       THEN /\ sp' = LoopEnded
            /\ UNCHANGED <<turn, userContent, iteration>>
       ELSE /\ sp' = "start"
            /\ turn' = 1
            /\ userContent' = <<NoToolsUsed>>
            /\ iteration' = iteration + 1
    /\ UNCHANGED <<askVars, taskVars, now, callerVars, ended, track,
                   config, isPaused, consecutiveAutoApprovedRequestsCount, pauseInterval, resume, storeVars, apiConversationHistory,
                   taskFlags, locals, attempt, requests, chunks, obs>>

\* Lines 1025-1030: the call has returned true; break.
LoopBreaks ==
    /\ sp = ReturnedTrue
    /\ sp' = LoopEnded
    /\ UNCHANGED <<askVars, taskVars, askSide, apiConversationHistory, taskFlags,
                   turn, locals, attempt, requests, chunks, obs>>

\* processUserContentMentions or getEnvironmentDetails rejects.
ContextFails ==
    /\ sp = "loadingContext"
    /\ ThrowBeforeTry
    /\ UNCHANGED <<askVars, taskVars, askSide, apiConversationHistory, taskFlags,
                   turn, locals, attempt, requests, chunks, obs>>

\* The new_task tool, executed by the presenter, pauses the task for the
\* sub-task it has started.
PauseTask ==
    /\ sp = "waitReady"
    /\ ~userMessageContentReady
    /\ DidToolUse(locals.assistantMessage)
    /\ ~isPaused
    /\ resume.pc = "idle"
    /\ isPaused' = TRUE
    /\ UNCHANGED <<askVars, taskVars, now, callerVars, ended, track,
                   config, consecutiveMistakeCount, consecutiveAutoApprovedRequestsCount, pauseInterval, userContent,
                   iteration, resume, storeVars, apiConversationHistory, taskFlags, loopVars,
                   obs>>

\* The text of the user message resumePausedTask appends.
NewTaskCompleted(lastMessage) == <<"[new_task completed] Result: ", lastMessage>>

\* Task.resumePausedTask(lastMessage) up to the await in say: the task is
\* released, and say("subtask_result") appends its message or throws at
\* its abort guard.
ResumePausedTask(lastMessage) ==
    /\ resume.pc = "idle"
    /\ isPaused
    /\ isPaused' = FALSE
    /\ IF AbortGuard
       THEN /\ resume' = [pc |-> "failed", lastMessage |-> lastMessage]
            /\ UNCHANGED <<clineMessages, lastMessageTs>>
       ELSE /\ clineMessages' = SayMessages("subtask_result", lastMessage, "undefined")
            /\ lastMessageTs' = SayTs("subtask_result", "undefined", FALSE)
            /\ resume' = [pc |-> "saying", lastMessage |-> lastMessage]
    /\ UNCHANGED <<askResponse, taskVars, now, callerVars, ended, track, config,
                   consecutiveMistakeCount, consecutiveAutoApprovedRequestsCount, pauseInterval, userContent, iteration,
                   storeVars, apiConversationHistory, taskFlags, loopVars, obs>>

\* The await of say returns: the result is appended to the history.
ResumeSaid ==
    /\ resume.pc = "saying"
    /\ apiConversationHistory' = AddToApiConversationHistory(
           ApiMessage("user", NewTaskCompleted(resume.lastMessage)))
    /\ resume' = [resume EXCEPT !.pc = "done"]
    /\ UNCHANGED <<askVars, taskVars, now, callerVars, ended, track,
                   config, consecutiveMistakeCount, isPaused, consecutiveAutoApprovedRequestsCount, pauseInterval,
                   userContent, iteration, storeVars, taskFlags, loopVars, obs>>

\* The operator answers the ask of the loop.
LoopAskPending == pc[LoopCaller] # "idle"

Results == {"R"}

LoopConfigs ==
    {[DefaultConfig EXCEPT !.language = language,
                           !.consecutiveMistakeLimit = consecutiveMistakeLimit] :
        language \in {"undefined", "en"},
        consecutiveMistakeLimit \in {1, DefaultMistakeLimit}}
    \cup {[DefaultConfig EXCEPT !.consecutiveMistakeLimit = 0], NoProvider}

LoopSpecInit ==
    /\ TaskInit
    /\ NewTaskDirectory
    /\ config \in LoopConfigs

LoopNext ==
    \/ StartTurn
    \/ AskPersisted(LoopCaller)
    \/ \E response \in AskResponses :
          LoopAskPending /\ HandleWebviewAskResponse(response)
    \/ MistakeLimitAnswered
    \/ FeedbackSaid
    \/ WaitForResumeReturns
    \/ RequestStarts
    \/ ContextLoaded
    \/ ContextFails
    \/ ResetStreamingState
    \/ \E timeSinceLastRequest \in TimesSinceLastRequest :
          StartAttempt(timeSinceLastRequest)
    \/ IssueRequest
    \/ \E text \in ChunkTexts : TextChunk(text)
    \/ \E usage \in UsageChunks : UsageChunk(usage)
    \/ StreamEnds
    \/ AbortStreamAppended
    \/ AbortStreamSaved
    \/ Finalized
    \/ ErrorSaid
    \/ NextTurn
    \/ PresentationDone
    \/ PauseTask
    \/ \E lastMessage \in Results : ResumePausedTask(lastMessage)
    \/ ResumeSaid
    \/ \E isAbandoned \in BOOLEAN : AbortTaskInLoop(isAbandoned)
    \/ LoopIterates
    \/ LoopBreaks

LoopSpec == LoopSpecInit /\ [][LoopNext]_vars

\* The timer of waitForResume fires every second and the awaits after it
\* return; and the sub-task finishes, so that resumePausedTask is called
\* and runs to its end.
LoopFairness ==
    /\ WF_sp(WaitForResumeReturns)
    /\ WF_sp(RequestStarts)
    /\ WF_isPaused(\E lastMessage \in Results : ResumePausedTask(lastMessage))
    /\ WF_resume(ResumeSaid)

LoopFairSpec == LoopSpec /\ LoopFairness

(***************************************************************************)
(* resumeTaskFromHistory, from the read of the saved history (line 776)    *)
(* to the call of initiateTaskLoop, followed by the first turn.            *)
(*                                                                         *)
(* A content block is a token.  The tool-use blocks and tool-result blocks *)
(* of old tasks carry the id of the tool use; ToolUseBlock[n] is the       *)
(* tool-use block with id n, ToolResultBlock[n] a result for it,           *)
(* InterruptedResult[n] the result of lines 838-842 and 872-876, and       *)
(* ToolUseAsText[n], ToolResultAsText[n] the text blocks of lines 786-806. *)
(***************************************************************************)
ToolIds == {1, 2}
TextBlock == "text"
ToolUseBlock == <<"tool_use 1", "tool_use 2">>
ToolResultBlock == <<"tool_result 1", "tool_result 2">>
InterruptedResult == <<"tool_result 1: Task was interrupted", "tool_result 2: Task was interrupted">>
ToolUseAsText == <<"<tool 1>", "<tool 2>">>
ToolResultAsText == <<"[tool 1 Result]", "[tool 2 Result]">>
TaskResumption == "[TASK RESUMPTION]"
TaskResumptionWithInstructions == "[TASK RESUMPTION] New instructions"

\* block.type === "tool_use"
IsToolUse(block) == \E n \in ToolIds : block = ToolUseBlock[n]

\* block.type === "tool_result"
IsToolResult(block) ==
    \E n \in ToolIds : block = ToolResultBlock[n] \/ block = InterruptedResult[n]

\* result.tool_use_id === toolUse.id
IsResultFor(block, n) == block = ToolResultBlock[n] \/ block = InterruptedResult[n]

\* x.type === "text" && x.text.startsWith("[TASK RESUMPTION]")
IsTaskResumption(block) ==
    block \in {TaskResumption, TaskResumptionWithInstructions}

\* Mutant: the blocks are left as they are.
ConvertBlockKept(block) == block

\* Lines 786-808: a tool-use block becomes a text block in the XML form, a
\* tool-result block a text block headed by the tool's name.
ConvertBlock(block) ==
    IF IsToolUse(block)
    THEN ToolUseAsText[CHOOSE n \in ToolIds : block = ToolUseBlock[n]]
    ELSE IF IsToolResult(block)
    THEN ToolResultAsText[CHOOSE n \in ToolIds : IsResultFor(block, n)]
    ELSE block

\* conversationWithoutToolBlocks (lines 783-813)
ConversationWithoutToolBlocks(history) ==
    [k \in 1..Len(history) |->
        [history[k] EXCEPT !.content =
            [j \in 1..Len(history[k].content) |-> ConvertBlock(history[k].content[j])]]]

\* The ids of the tool-use blocks of a content, in order.
RECURSIVE ToolUseIds(_)
ToolUseIds(content) ==
    IF content = <<>> THEN <<>>
    ELSE LET rest == ToolUseIds(Tail(content))
         IN  IF IsToolUse(Head(content))
             THEN <<CHOOSE n \in ToolIds : Head(content) = ToolUseBlock[n]>> \o rest
             ELSE rest

HasResultFor(content, n) ==
    \E j \in 1..Len(content) : IsResultFor(content[j], n)

\* The interrupted results for the tool uses ids that content leaves
\* unanswered.
RECURSIVE MissingToolResponses(_, _)
MissingToolResponses(ids, content) ==
    IF ids = <<>> THEN <<>>
    ELSE LET rest == MissingToolResponses(Tail(ids), content)
         IN  IF HasResultFor(content, Head(ids))
             THEN rest
             ELSE <<InterruptedResult[Head(ids)]>> \o rest

ButLast(seq) == SubSeq(seq, 1, Len(seq) - 1)

\* Lines 826-885 for a history that is not empty:
\* modifiedApiConversationHistory.
ModifiedApiConversationHistory(existing) ==
    IF existing[Len(existing)].role = "assistant" THEN existing ELSE ButLast(existing)

\* Lines 826-885: modifiedOldUserContent.
ModifiedOldUserContent(existing) ==
    LET lastMessage == existing[Len(existing)]
    IN  IF lastMessage.role = "assistant"
        THEN MissingToolResponses(ToolUseIds(lastMessage.content), <<>>)
        ELSE IF Len(existing) >= 2 /\ existing[Len(existing) - 1].role = "assistant"
             THEN lastMessage.content
                  \o MissingToolResponses(
                         ToolUseIds(existing[Len(existing) - 1].content),
                         lastMessage.content)
             ELSE lastMessage.content

\* newUserContent.findIndex(IsTaskResumption), 1-based; 0 for -1.
RECURSIVE FindTaskResumption(_, _)
FindTaskResumption(content, k) ==
    IF k > Len(content) THEN 0
    ELSE IF IsTaskResumption(content[k]) THEN k
    ELSE FindTaskResumption(content, k + 1)

\* Lines 887-938: newUserContent; responseText is "undefined" when the
\* operator resumed without a message.
NewUserContent(existing, responseText) ==
    LET old == ModifiedOldUserContent(existing)
        lastTaskResumptionIndex == FindTaskResumption(old, 1)
        kept == IF lastTaskResumptionIndex # 0
                THEN SubSeq(old, 1, lastTaskResumptionIndex - 1)
                ELSE old
    IN  kept \o <<IF responseText # "undefined"
                  THEN TaskResumptionWithInstructions
                  ELSE TaskResumption>>

\* resumeTaskFromHistory, lines 776-950: the saved history has been read;
\* an empty one throws, otherwise the repaired history replaces the
\* task's and the loop is entered with newUserContent.
RepairHistory(responseText) ==
    /\ sp = "resuming"
    /\ LET existing == ConversationWithoutToolBlocks(savedApiMessages)
       IN  IF Len(existing) = 0
           THEN /\ sp' = Thrown
                /\ UNCHANGED <<apiConversationHistory, savedApiMessages, userContent>>
           ELSE /\ apiConversationHistory' = ModifiedApiConversationHistory(existing)
                /\ savedApiMessages' = apiConversationHistory'
                /\ userContent' = NewUserContent(existing, responseText)
                /\ sp' = "start"
    /\ UNCHANGED <<askVars, taskVars, askResponse, now, callerVars, ended, track,
                   config, consecutiveMistakeCount, isPaused, consecutiveAutoApprovedRequestsCount, pauseInterval,
                   iteration, resume, savedTaskMessages, taskFlags, turn, locals,
                   attempt, requests, chunks, obs>>

\* The histories found in the task directory: messages of old and new
\* tasks, well paired or cut short.
MaxSaved == 3

AssistantContents ==
    {<<TextBlock>>, <<TextBlock, ToolUseBlock[1]>>,
     <<ToolUseBlock[1], ToolUseBlock[2]>>}
UserContents ==
    {<<TextBlock>>, <<ToolResultBlock[1]>>, <<ToolResultBlock[2], TextBlock>>,
     <<ToolResultBlock[1], TaskResumption, TextBlock>>}
SavedMessages ==
    {ApiMessage("assistant", content) : content \in AssistantContents}
        \cup {ApiMessage("user", content) : content \in UserContents}
SavedHistories ==
    UNION {[1..n -> SavedMessages] : n \in 0..MaxSaved}

ResumeInit ==
    /\ AskInit
    /\ LoopFields
    /\ sp = "resuming"
    /\ userContent = <<>>
    /\ savedApiMessages \in SavedHistories
    /\ savedTaskMessages = <<>>
    /\ config = DefaultConfig

ResumeNext ==
    \/ \E responseText \in {"undefined", "go on"} : RepairHistory(responseText)
    \/ StartTurn
    \/ ContextLoaded

ResumeSpec == ResumeInit /\ [][ResumeNext]_vars

(***************************************************************************)
(* attemptApiRequest under first-chunk failures: the provider's settings   *)
(* and the errors range over the cases the retry policy distinguishes.     *)
(***************************************************************************)
RequestDelays == {0, 1, Den, 5 * Den}
RateLimits == {0, 3}

\* Settings with a ceiling on the auto-approved requests (allowedMaxRequests).
MaxRequestsConfigs ==
    {[Settings(TRUE, alwaysApproveResubmit, 0, 0) EXCEPT !.allowedMaxRequests = 1] :
        alwaysApproveResubmit \in BOOLEAN}

RetryConfigs ==
    {Settings(TRUE, TRUE, requestDelaySeconds, rateLimitSeconds) :
        requestDelaySeconds \in RequestDelays, rateLimitSeconds \in RateLimits}
    \cup {Settings(autoApprovalEnabled, FALSE, 0, rateLimitSeconds) :
              autoApprovalEnabled \in BOOLEAN, rateLimitSeconds \in RateLimits}
    \cup MaxRequestsConfigs

RetryInfo(retryDelay) == Detail(RetryInfoType, retryDelay)
Help == Detail("type.googleapis.com/google.rpc.Help", <<>>)

RetryErrors ==
    {Failure(500, <<>>),
     Failure(429, <<>>),
     Failure(429, <<Help>>),
     Failure(429, <<RetryInfo(<<"3", "s">>)>>),
     Failure(429, <<Help, RetryInfo(<<"1", "0", "s">>)>>),
     Failure(429, <<RetryInfo(<<"3", ".", "5", "s">>)>>),
     Failure(500, <<RetryInfo(<<"3", "s">>)>>)}

RetryInit ==
    /\ TaskInit
    /\ NewTaskDirectory
    /\ config \in RetryConfigs

RetryNext ==
    \/ StartTurn
    \/ ContextLoaded
    \/ ResetStreamingState
    \/ \E timeSinceLastRequest \in TimesSinceLastRequest :
          StartAttempt(timeSinceLastRequest)
    \/ IssueRequest
    \/ RateLimitCountdown
    \/ RateLimitDelayElapsed
    \/ \E error \in RetryErrors : FirstChunkFails(error)
    \/ RetryCountdown
    \/ RetryDelayElapsed
    \/ AskApiReqFailed
    \/ AskPersisted(LoopCaller)
    \/ \E response \in AskResponses : HandleWebviewAskResponse(response)
    \/ ApiReqFailedAnswered
    \/ MaxRequestsAnswered
    \/ AbortStreamAppended
    \/ AbortStreamSaved
    \/ \E isAbandoned \in BOOLEAN : AbortTaskInLoop(isAbandoned)

RetrySpec == RetryInit /\ [][RetryNext]_vars

(***************************************************************************)
(* Properties of the ask/say protocol.                                     *)
(***************************************************************************)
\* A step that is a call of ask, resp. of say (whatever its arguments).
AskCallStep ==
    \E c \in Callers, type \in AskTypes, text \in Texts, partial \in Partials :
        Ask(c, type, text, partial)

SayCallStep ==
    \E type \in SayTypes, text \in Texts, partial \in Partials,
       isNonInteractive \in BOOLEAN :
        Say(type, text, partial, isNonInteractive)

NonInteractiveSayStep ==
    \E type \in SayTypes, text \in Texts, partial \in Partials :
        Say(type, text, partial, TRUE)

\* C1: a sequence of partial=true calls of one (kind, subtype) closed by a
\* partial=false call, with no other display message in between, adds
\* exactly one entry to the display log (the log is one longer than before
\* the first partial call, during the sequence and when it is closed), and
\* that entry keeps the ts the first partial call assigned (the clock value
\* it read), also after every later call.
C1_OneEntryStableTs ==
    track.active =>
        /\ track.base + 1 <= Len(clineMessages)
        /\ clineMessages[track.base + 1].ts = track.ts
        /\ clineMessages[track.base + 1].type = track.kind
        /\ clineMessages[track.base + 1].sub = track.sub
        /\ ~track.done => Len(clineMessages) = track.base + 1
        /\ track.done => /\ track.closedLen = track.base + 1
                         /\ clineMessages[track.base + 1].partial = "false"

\* A sequence of two ticks' length has been closed (the completing call
\* came at a later clock value than the first partial call) and a later
\* call has appended another message.
C1_Witness ==
    /\ track.active
    /\ track.done
    /\ track.ts < now
    /\ Len(clineMessages) > track.closedLen

\* C2 as stated: the display log holds, for each (kind, subtype), at most
\* one message whose partial flag is true.
C2_AtMostOnePartialPerSubtype ==
    \A i, j \in 1..Len(clineMessages) :
        (/\ i < j
         /\ clineMessages[i].partial = "true"
         /\ clineMessages[j].partial = "true"
         /\ clineMessages[i].type = clineMessages[j].type)
        => clineMessages[i].sub # clineMessages[j].sub

\* C2 as amended: no two adjacent entries of the display log are partial
\* messages of the same (kind, subtype); in particular at most one such
\* message is trailing.
C2_NoAdjacentPartialsOfOneSubtype ==
    \A i \in 1..(Len(clineMessages) - 1) :
        ~(/\ clineMessages[i].partial = "true"
          /\ clineMessages[i + 1].partial = "true"
          /\ clineMessages[i].type = clineMessages[i + 1].type
          /\ clineMessages[i].sub = clineMessages[i + 1].sub)

\* A partial ask was updated in place while it was the last entry, and the
\* log holds an older partial message as well.
C2_Witness ==
    /\ Len(clineMessages) >= 2
    /\ clineMessages[Len(clineMessages)].partial = "true"
    /\ clineMessages[Len(clineMessages) - 1].partial = "true"
    /\ ended = "ignored1"

\* C3: an ask called with partial undefined appends one display message
\* and then waits; it ends only by returning a delivered response while
\* its ts is still lastMessageTs, or by raising the ignored error; and
\* once lastMessageTs differs from its ts while it waits, it stays so
\* until the ask ends, the ask does end, and it ends with the ignored error.
C3_AtomicAskStep ==
    \A c \in Callers :
        /\ (pc[c] = "idle" /\ pc'[c] # "idle" /\ call'[c] = "undefined")
           => /\ Len(clineMessages') = Len(clineMessages) + 1
              /\ clineMessages'[Len(clineMessages')].ts = askTs'[c]
              /\ pc'[c] = "persisting"
        /\ (call[c] = "undefined" /\ pc[c] # "idle" /\ pc'[c] = "idle")
           => /\ pc[c] = "waiting"
              /\ \/ /\ ended' \in Responses
                    /\ ended' = askResponse
                    /\ lastMessageTs = askTs[c]
                 \/ /\ ended' = "ignored"
                    /\ lastMessageTs # askTs[c]
        /\ (call[c] = "undefined" /\ pc[c] = "waiting" /\ lastMessageTs # askTs[c])
           => \/ pc'[c] = "waiting" /\ lastMessageTs' # askTs'[c]
              \/ pc'[c] = "idle" /\ ended' = "ignored"

C3_AtomicAskWaitsOrIsSuperseded ==
    /\ [][C3_AtomicAskStep]_vars
    /\ \A c \in Callers :
          (call[c] = "undefined" /\ pc[c] = "waiting" /\ lastMessageTs # askTs[c])
              ~> (pc[c] # "waiting")

\* An ask has just ended with the ignored error of the wait, in a log that
\* holds atomic messages only.
C3_Witness ==
    /\ ended = "ignored"
    /\ Len(clineMessages) >= 2
    /\ \A i \in 1..Len(clineMessages) : clineMessages[i].partial = "undefined"

\* C4: an ask called with partial=true that passes the abort guard either
\* updates the trailing partial ask and throws ignored (#1) at once, or
\* appends and, when the append returns, throws ignored (#2); it never
\* reaches the wait and never returns a response.
C4_PartialAskStep ==
    \A c \in Callers :
        /\ ((\E type \in AskTypes, text \in Texts : Ask(c, type, text, "true")) /\ ~abort)
           => \/ pc'[c] = "idle" /\ ended' = "ignored1"
                 /\ Len(clineMessages') = Len(clineMessages)
              \/ pc'[c] = "addingPartial" /\ call'[c] = "true"
                 /\ Len(clineMessages') = Len(clineMessages) + 1
        /\ (call[c] = "true" /\ pc[c] # "idle")
           => \/ pc'[c] = pc[c] /\ call'[c] = "true"
              \/ pc'[c] = "idle" /\ ended' = "ignored2"

C4_PartialAskIsIgnored ==
    /\ [](\A c \in Callers : call[c] = "true" => pc[c] = "addingPartial")
    /\ [][C4_PartialAskStep]_vars

\* A partial ask that appended has just thrown ignored (#2).
C4_Witness ==
    /\ ended = "ignored2"
    /\ \E i \in 1..Len(clineMessages) :
          clineMessages[i].type = "ask" /\ clineMessages[i].partial = "true"

\* C5: when a response is in the slot and a waiting ask's ts is not
\* lastMessageTs, the ask's wait ends with the ignored error: the ask
\* does not return the response (and leaves it in the slot).
C5_SupersededStep ==
    \A c \in Callers :
        (/\ pc[c] = "waiting"
         /\ askResponse # "undefined"
         /\ lastMessageTs # askTs[c]
         /\ pc'[c] # "waiting")
        => /\ ended' = "ignored"
           /\ askResponse' = askResponse

C5_SupersededAskIgnoresResponse == [][C5_SupersededStep]_vars

\* An ask has just ended with the ignored error while a response was in
\* the slot.
C5_Witness ==
    /\ ended = "ignored"
    /\ askResponse # "undefined"

\* C6: a say with isNonInteractive=true, in each of its forms, leaves
\* lastMessageTs unchanged; an ask that waits with its ts equal to
\* lastMessageTs still waits with its ts equal to lastMessageTs after it.
C6_NonInteractiveStep ==
    NonInteractiveSayStep
    => /\ lastMessageTs' = lastMessageTs
       /\ \A c \in Callers :
             (pc[c] = "waiting" /\ lastMessageTs = askTs[c])
             => (pc'[c] = "waiting" /\ lastMessageTs' = askTs'[c])

C6_NonInteractiveSayKeepsLastMessageTs == [][C6_NonInteractiveStep]_vars

\* An ask waits, not superseded, with the response in the slot, although
\* the last entry of the log is a say stamped later than lastMessageTs:
\* only a non-interactive say leaves such a state.
C6_Witness ==
    /\ Len(clineMessages) >= 2
    /\ clineMessages[Len(clineMessages)].type = "say"
    /\ clineMessages[Len(clineMessages)].ts > lastMessageTs
    /\ askResponse # "undefined"
    /\ \E c \in Callers : pc[c] = "waiting" /\ lastMessageTs = askTs[c]

\* C7: once abort is set, every call of ask and of say throws the
\* task-aborted error at once and leaves the display log, lastMessageTs
\* and the response slot unchanged.
C7_AbortedCallStep ==
    (abort /\ (AskCallStep \/ SayCallStep))
    => /\ ended' = "aborted"
       /\ clineMessages' = clineMessages
       /\ lastMessageTs' = lastMessageTs
       /\ askResponse' = askResponse
       /\ pc' = pc

C7_CallsFailAfterAbort == [][C7_AbortedCallStep]_vars

\* A call has just thrown the task-aborted error; the log is not empty and
\* a response is in the slot.
C7_Witness ==
    /\ abort
    /\ ended = "aborted"
    /\ Len(clineMessages) >= 1
    /\ askResponse # "undefined"

(***************************************************************************)
(* Properties of the request loop.                                         *)
(***************************************************************************)
LastApiMessage == apiConversationHistory[Len(apiConversationHistory)]

ApiReqStarted == clineMessages[locals.lastApiReqIndex]

\* C8: when abortTask() was called on a task, not abandoned, while the
\* stream was being read, and the loop was then left from the iteration
\* of a chunk (of whatever type) without a failure of the stream, the
\* call ends with the history's last entry being the assistant message
\* made of the text streamed so far and the 'Response interrupted by
\* user' marker, and with cancelReason user_cancelled in the
\* api_req_started message.
C8_AbortWhileStreamingLeavesUserMarker ==
    (/\ obs.userAborted
     /\ ~abandoned
     /\ obs.failure = "none"
     /\ obs.leftBy \notin {"none", "end"}
     /\ ~LoopRuns)
    => /\ Len(apiConversationHistory) > 0
       /\ LastApiMessage =
              ApiMessage("assistant", locals.assistantMessage \o <<UserInterruptMarker>>)
       /\ ApiReqStarted.text.cancelReason = "user_cancelled"

\* C9 as stated: once didAlreadyUseTool is set the loop receives no
\* further defined chunk in that turn, and the assistant message it
\* appends ends with the tool-use marker.
C9_NoChunkAfterToolUse ==
    /\ obs.sinceTool = 0
    /\ (didAlreadyUseTool /\ sp = "waitReady")
       => LastApiMessage.content[Len(LastApiMessage.content)] = ToolUseMarker

\* C9 as amended: once didAlreadyUseTool is set the loop receives at most
\* one further defined chunk in that turn and ends in the iteration of
\* that chunk; when it ends on the check of didAlreadyUseTool (the task
\* is not aborted and didRejectTool is not set), the marker is the last
\* part of assistantMessage, and the assistant message appended to the
\* history is that assistantMessage.
C9_AtMostOneChunkAfterToolUse ==
    /\ obs.sinceTool <= 1
    /\ obs.sinceTool = 1 => sp \notin {"firstChunk", "reading"}
    /\ (obs.sinceTool = 1 /\ sp \in {"finalized", "waitReady"})
       => obs.leftBy \in {"tool", "feedback"}
    /\ obs.leftBy = "feedback" => didRejectTool
    /\ (obs.leftBy = "tool" /\ sp \in {"finalized", "waitReady"})
       => locals.assistantMessage[Len(locals.assistantMessage)] = ToolUseMarker
    /\ (obs.leftBy = "tool" /\ sp = "waitReady")
       => LastApiMessage = ApiMessage("assistant", locals.assistantMessage)

\* A tool_use text, a later chunk of text received after the flag was set,
\* and the marker: the loop ended on the check, the message is appended.
C9_Witness ==
    /\ sp = "waitReady"
    /\ obs.leftBy = "tool"
    /\ obs.sinceTool = 1
    /\ Len(locals.assistantMessage) = 3
    /\ locals.assistantMessage[1] = "tool_use"
    /\ LastApiMessage.content = locals.assistantMessage

\* C10 as stated: after the stream has failed past its first chunk, no
\* further model request is issued, abort is set, and the history's last
\* entry is the assistant message made of the partial output and the
\* 'Response interrupted by API Error' marker.
C10_MidStreamFailureCancelsAndMarks ==
    obs.failure # "none"
    => /\ abort
       /\ requests = obs.requestsAtFailure
       /\ LastApiMessage =
              ApiMessage("assistant", locals.assistantMessage \o <<ApiErrorMarker>>)

\* C10 as amended: after the stream has failed past its first chunk, no
\* further model request is issued and abort is set; on a task that is not
\* abandoned the history's last entry is the assistant message made of
\* the partial output and the marker, on an abandoned task nothing was
\* appended (the last entry is still the turn's user message).
C10_MidStreamFailureCancels ==
    /\ obs.failure # "none"
       => /\ abort
          /\ requests = obs.requestsAtFailure
    /\ obs.failure = "failed"
       => LastApiMessage =
              ApiMessage("assistant", locals.assistantMessage \o <<ApiErrorMarker>>)
    /\ obs.failure = "abandoned"
       => /\ sp = ReturnedTrue
          /\ LastApiMessage.role = "user"

\* The stream of the second turn failed after a text chunk, and abortStream
\* has finished.
C10_Witness ==
    /\ obs.failure = "failed"
    /\ sp = ReturnedTrue
    /\ turn = 2
    /\ Len(locals.assistantMessage) >= 1
    /\ didFinishAbortingStream
    /\ ApiReqStarted.text.cancelReason = "streaming_failed"

(***************************************************************************)
(* Properties of the retry policy.                                         *)
(***************************************************************************)
\* The countdown of a first-chunk failure is over: the retry comes next.
RetryDue == sp = "backoff" /\ attempt.i = 0

\* The error carries a RetryInfo detail.
CarriesHint(error) ==
    \E k \in 1..Len(error.errorDetails) : error.errorDetails[k].type = RetryInfoType

\* C11: on a first-chunk failure with automatic resubmission and no
\* provider hint, the seconds waited before retry number n are
\* max(rateLimitDelay, ceil(b * 2^n)), b being the base delay; with b = 5,
\* n = 2 and no rate-limit delay they are 20.
C11_WaitIsMaxOfRateLimitAndBackoff ==
    RetryDue /\ ~CarriesHint(attempt.error) =>
        LET b == BaseDelay(config.requestDelaySeconds)
            n == attempt.retryAttempt
        IN  /\ \E e \in 0..MaxDelay :
                  /\ e * Den >= b * 2^n
                  /\ (e - 1) * Den < b * 2^n
                  /\ attempt.waited = Max(attempt.rateLimitDelay, e)
            /\ b = 5 * Den /\ n = 2 /\ attempt.rateLimitDelay = 0
                    => attempt.waited = 20

C11_Witness ==
    /\ RetryDue
    /\ ~CarriesHint(attempt.error)
    /\ config.requestDelaySeconds = 5 * Den
    /\ attempt.retryAttempt = 2
    /\ attempt.rateLimitDelay = 0
    /\ attempt.waited = 20

\* C12: on a first-chunk failure with status 429 that carries a provider
\* retry-delay hint, the seconds waited before the retry are the same
\* whatever the base delay and the retry attempt.
C12_HintedWaitIgnoresBackoff ==
    RetryDue /\ attempt.error.status = 429 /\ CarriesHint(attempt.error) =>
        \A requestDelaySeconds \in RequestDelays, n \in 0..MaxRetryAttempts :
            attempt.waited = FinalDelay(attempt.error, requestDelaySeconds, n,
                                        attempt.rateLimitDelay)

\* The attempt is on its way to a model request or waits for a chunk.
Requesting ==
    sp \in {"requesting", "rateLimiting", "rateLimitDelaying", "creating",
            "firstChunk"}

\* C13: without automatic resubmission, the requests issued never exceed
\* the approvals of api_req_failed asks by more than the first request,
\* an approval is followed by at most one request, and after any other
\* answer the attempt is on the error path, never on the way to a request.
C13_RequestsNeedApproval ==
    ~AutoRetry =>
        /\ requests <= attempt.approvals + 1
        /\ Requesting => requests \in {attempt.approvals, attempt.approvals + 1}
        /\ sp = "firstChunk" => requests = attempt.approvals + 1
        /\ attempt.answer \notin {"none", "yesButtonClicked"} => ~Requesting

C13_Witness ==
    /\ ~AutoRetry
    /\ attempt.approvals = 2
    /\ requests = 3
    /\ attempt.answer = "yesButtonClicked"

(***************************************************************************)
(* Properties of the task loop and of the sub-task hand-off.               *)
(***************************************************************************)
\* The display log holds a say message of the given subtype and text.
Said(sub, text) ==
    \E k \in 1..Len(clineMessages) :
        /\ clineMessages[k].type = "say"
        /\ clineMessages[k].sub = sub
        /\ clineMessages[k].text = text

\* The model-facing history holds the message.
InHistory(message) ==
    \E k \in 1..Len(apiConversationHistory) : apiConversationHistory[k] = message

\* C14: once resumePausedTask(R) has begun on a paused task that is not
\* aborted, isPaused is cleared and the subtask_result message with text R
\* is in the display log; once it has ended, the user message
\* "[new_task completed] Result: R" is in the history; and waitForResume
\* returns to the loop only after that.
C14_LoopContinuesAfterResultIsAppended ==
    /\ resume.pc \in {"saying", "done"} =>
           ~isPaused /\ Said("subtask_result", resume.lastMessage)
    /\ resume.pc = "done" =>
           InHistory(ApiMessage("user", NewTaskCompleted(resume.lastMessage)))
    /\ sp = "resumed" /\ ~abort => resume.pc = "done"

\* The step in which the mistake_limit_reached ask returns a response that
\* carries no message content.
MistakeLimitAnsweredWithoutContent ==
    /\ sp = "mistakeLimit"
    /\ sp' # sp
    /\ ~IsSuperseded(LoopCaller)
    /\ askResponse # "messageResponse"

\* C15: when the mistake_limit_reached ask of a turn is answered without
\* message content, consecutiveMistakeCount becomes 0 and the turn's user
\* content is left as it was; unless the task was aborted or is paused,
\* the turn announces its request in the same step.
C15_MistakeLimitStep ==
    MistakeLimitAnsweredWithoutContent =>
        /\ consecutiveMistakeCount' = 0
        /\ userContent' = userContent
        /\ ~abort /\ ~isPaused =>
               /\ sp' = "loadingContext"
               /\ clineMessages'[Len(clineMessages')].sub = "api_req_started"

StoreIdle == "storeIdle"

\* Mutant: no catch block, the rejection of the save reaches the caller.
AfterSaveFailureRethrown(next) == Thrown

\* Lines 341-344 and 389-391: the catch block logs with console.error and
\* the save resolves; the caller goes on.
AfterSaveFailure(next) == next

storeSide == <<lastMessageTs, askResponse, abort, abandoned, now, pc, askTs, call,
               ended, track, taskFlags, turn, locals, attempt, requests, chunks,
               obs, config, turnVars>>

\* Lines 323-326: the push, up to the await of saveApiMessages.
AddToApiConversationHistoryCalled(message) ==
    /\ sp = StoreIdle
    /\ Len(apiConversationHistory) < MaxMsgs
    /\ apiConversationHistory' = AddToApiConversationHistory(message)
    /\ sp' = "savingApi"
    /\ UNCHANGED <<clineMessages, storeVars, storeSide>>

\* Lines 335-340: saveApiMessages has written the file.
SaveApiMessagesResolves ==
    /\ sp = "savingApi"
    /\ savedApiMessages' = apiConversationHistory
    /\ sp' = StoreIdle
    /\ UNCHANGED <<apiConversationHistory, clineMessages, savedTaskMessages, storeSide>>

\* Lines 335-341: saveApiMessages rejects, the file is as it was.
SaveApiMessagesRejects ==
    /\ sp = "savingApi"
    /\ sp' = "apiSaveFailed"
    /\ UNCHANGED <<apiConversationHistory, clineMessages, storeVars, storeSide>>

\* Lines 341-344: the catch block of saveApiConversationHistory.
ApiSaveFailureCaught ==
    /\ sp = "apiSaveFailed"
    /\ sp' = AfterSaveFailure(StoreIdle)
    /\ UNCHANGED <<apiConversationHistory, clineMessages, storeVars, storeSide>>

\* Lines 353-357: the push, postStateToWebview and the message event, up to
\* the await of saveTaskMessages.
AddToClineMessagesCalled(message) ==
    /\ sp = StoreIdle
    /\ Len(clineMessages) < MaxMsgs
    /\ clineMessages' = AddToClineMessages(message)
    /\ sp' = "savingTask"
    /\ UNCHANGED <<apiConversationHistory, storeVars, storeSide>>

\* Lines 371-388: saveTaskMessages, taskMetadata and updateTaskHistory
\* have all resolved.
SaveClineMessagesResolves ==
    /\ sp = "savingTask"
    /\ savedTaskMessages' = clineMessages
    /\ sp' = StoreIdle
    /\ UNCHANGED <<apiConversationHistory, clineMessages, savedApiMessages, storeSide>>

\* Lines 371-389: saveTaskMessages rejects (nothing written), or
\* taskMetadata or updateTaskHistory rejects after the file was written.
SaveClineMessagesRejects(written) ==
    /\ sp = "savingTask"
    /\ savedTaskMessages' = IF written THEN clineMessages ELSE savedTaskMessages
    /\ sp' = "taskSaveFailed"
    /\ UNCHANGED <<apiConversationHistory, clineMessages, savedApiMessages, storeSide>>

\* Lines 389-391: the catch block of saveClineMessages.
ClineSaveFailureCaught ==
    /\ sp = "taskSaveFailed"
    /\ sp' = AfterSaveFailure(StoreIdle)
    /\ UNCHANGED <<apiConversationHistory, clineMessages, storeVars, storeSide>>

\* The messages appended: a user and an assistant message, a text and an
\* error say.
StoredApiMessages ==
    {ApiMessage("user", <<TaskBlock>>), ApiMessage("assistant", <<"text">>)}
StoredClineMessages ==
    {Message(now, "say", sub, text, "undefined") : sub \in {"text", "error"}, text \in Texts}

StoreInit ==
    /\ AskInit
    /\ LoopFields
    /\ sp = StoreIdle
    /\ userContent = <<>>
    /\ NewTaskDirectory
    /\ config = DefaultConfig

StoreNext ==
    \/ \E message \in StoredApiMessages : AddToApiConversationHistoryCalled(message)
    \/ SaveApiMessagesResolves
    \/ SaveApiMessagesRejects
    \/ ApiSaveFailureCaught
    \/ \E message \in StoredClineMessages : AddToClineMessagesCalled(message)
    \/ SaveClineMessagesResolves
    \/ \E written \in BOOLEAN : SaveClineMessagesRejects(written)
    \/ ClineSaveFailureCaught

StoreSpec == StoreInit /\ [][StoreNext]_vars

(***************************************************************************)
(* Task.condenseContext, called while the task's logs grow.                *)
(* summarizeConversation is not part of the sources: it resolves with a    *)
(* summary, or with none, and with the messages that replace the history.  *)
(***************************************************************************)
\* What summarizeConversation resolves with as its summary.
Summaries == {"undefined", "", "summary"}

\* Mutant: the summary is not looked at.
HasSummaryAlways(summary) == TRUE

\* `if (!summary) return` at line 534, negated.
HasSummary(summary) == summary \notin {"undefined", ""}

\* The messages summarizeConversation resolves with: the first message of
\* the history and the summary.
CondensedMessages(summary) ==
    (IF Len(apiConversationHistory) = 0 THEN <<>> ELSE <<apiConversationHistory[1]>>)
        \o <<ApiMessage("assistant", <<summary>>)>>

condenseSide == <<lastMessageTs, askResponse, now, pc, askTs, call, ended, track,
                  taskFlags, turn, locals, attempt, requests, chunks, config,
                  turnVars>>

\* Lines 526-533: condenseContext up to the await of summarizeConversation.
CondenseContextCalled ==
    /\ sp = StoreIdle
    /\ Len(clineMessages) < MaxMsgs
    /\ sp' = "summarizing"
    /\ UNCHANGED <<apiConversationHistory, clineMessages, taskVars, obs, storeVars,
                   condenseSide>>

\* Lines 528-536: summarizeConversation resolves; without a summary
\* condenseContext returns, with one overwriteApiConversationHistory runs
\* up to the await of its save.
SummarizeConversationResolves(summary) ==
    /\ sp = "summarizing"
    /\ obs' = [obs EXCEPT !.summary = summary]
    /\ IF HasSummary(summary)
       THEN /\ apiConversationHistory' = CondensedMessages(summary)
            /\ sp' = "condenseSaving"
       ELSE /\ sp' = StoreIdle
            /\ UNCHANGED apiConversationHistory
    /\ UNCHANGED <<clineMessages, taskVars, storeVars, condenseSide>>

\* Lines 331, 334-345 and 539-548: the save of the history has resolved,
\* or has failed and was logged; say("condense_context", ...,
\* isNonInteractive) throws at its abort guard or runs up to its await.
CondenseSaved(written) ==
    /\ sp = "condenseSaving"
    /\ savedApiMessages' = IF written THEN apiConversationHistory ELSE savedApiMessages
    /\ IF AbortGuard
       THEN /\ sp' = Thrown
            /\ UNCHANGED clineMessages
       ELSE /\ clineMessages' = SayMessages("condense_context", "undefined", "false")
            /\ sp' = "savingTask"
    /\ lastMessageTs' = IF AbortGuard THEN lastMessageTs
                        ELSE SayTs("condense_context", "false", TRUE)
    /\ UNCHANGED <<apiConversationHistory, taskVars, obs, savedTaskMessages,
                   askResponse, now, pc, askTs, call, ended, track, taskFlags, turn,
                   locals, attempt, requests, chunks, config, turnVars>>

\* Task.abortTask, called while the logs are written or condensed.
AbortTaskInStore(isAbandoned) ==
    /\ sp # Thrown
    /\ ~abandoned
    /\ abandoned' = Abandon(isAbandoned)
    /\ abort' = TRUE
    /\ UNCHANGED <<apiConversationHistory, clineMessages, sp, obs, storeVars,
                   condenseSide>>

CondenseNext ==
    \/ StoreNext
    \/ CondenseContextCalled
    \/ \E summary \in Summaries : SummarizeConversationResolves(summary)
    \/ \E written \in BOOLEAN : CondenseSaved(written)
    \/ \E isAbandoned \in BOOLEAN : AbortTaskInStore(isAbandoned)

CondenseSpec == StoreInit /\ [][CondenseNext]_vars

(***************************************************************************)
(* Properties of the repair of a saved history.                            *)
(***************************************************************************)
\* The first turn after the repair has appended its user message.
FirstResumedTurnAppended == sp = "resetting" /\ requests = 0 /\ iteration = 1

\* Every tool use of an assistant message is answered in the next message.
ToolUsesArePaired(history) ==
    \A k \in 1..Len(history) :
        history[k].role = "assistant" /\ ToolUseIds(history[k].content) # <<>> =>
            /\ k < Len(history)
            /\ history[k + 1].role = "user"
            /\ \A j \in 1..Len(history[k].content) :
                  \A n \in ToolIds :
                      history[k].content[j] = ToolUseBlock[n] =>
                          HasResultFor(history[k + 1].content, n)

\* The tool uses of the last assistant message of the saved history that
\* the saved history leaves unanswered.
UnansweredToolUses(history) ==
    IF history = <<>> THEN {}
    ELSE LET last == history[Len(history)]
         IN  IF last.role = "assistant"
             THEN {n \in ToolIds : \E j \in 1..Len(last.content) :
                                      last.content[j] = ToolUseBlock[n]}
             ELSE IF Len(history) >= 2 /\ history[Len(history) - 1].role = "assistant"
             THEN {n \in ToolIds :
                      /\ \E j \in 1..Len(history[Len(history) - 1].content) :
                             history[Len(history) - 1].content[j] = ToolUseBlock[n]
                      /\ ~HasResultFor(last.content, n)}
             ELSE {}

\* The step of resumeTaskFromHistory that repairs a saved history.
RepairStep == sp = "resuming" /\ sp' = "start"

AlternatesRoles(history) ==
    \A k \in 1..(Len(history) - 1) : history[k].role # history[k + 1].role

\* C17: in every reachable state of a task the model-facing history has no
\* two consecutive messages with the same role.
C17_HistoryAlternatesRoles == AlternatesRoles(apiConversationHistory)

(***************************************************************************)
(* Properties of the appends whose save fails.                             *)
(***************************************************************************)
\* The catch block of a failed save is about to run.
SaveFailed == sp \in {"apiSaveFailed", "taskSaveFailed"}

C18_FailedSaveStep ==
    SaveFailed =>
        /\ sp' = StoreIdle
        /\ apiConversationHistory' = apiConversationHistory
        /\ clineMessages' = clineMessages
        /\ sp = "apiSaveFailed" =>
               Len(apiConversationHistory') > Len(savedApiMessages')
        /\ sp = "taskSaveFailed" => Len(clineMessages') > 0

\* C18: when the save of the model-facing history or of the display log
\* fails, the append completes without raising: the caller is back
\* between two appends, the message is still in the in-memory log, and
\* for the model-facing history the log is ahead of the file.
C18_FailedSaveDoesNotRaise == [][C18_FailedSaveStep]_vars

\* Both saves have failed, and the task has gone on to a second append to
\* each log: nothing is on disk, everything is in memory.
C18_Witness ==
    /\ sp = StoreIdle
    /\ Len(apiConversationHistory) = 2
    /\ Len(clineMessages) = 2
    /\ savedApiMessages = <<>>
    /\ savedTaskMessages = <<>>

(***************************************************************************)
(* Properties of initiateTaskLoop.                                         *)
(***************************************************************************)
\* C19: no exception raised in an iteration of recursivelyMakeClineRequests
\* propagates out of initiateTaskLoop.
C19_NoExceptionLeavesTheLoop == sp # Thrown

\* initiateTaskLoop no longer iterates: it has returned, or an exception
\* has left it.
LoopStopped == sp \in {LoopEnded, Thrown}

C20_LoopStep ==
    /\ ~LoopStopped /\ LoopStopped' => sp = ReturnedTrue \/ abort
    /\ sp = ReturnedFalse /\ sp' # sp /\ ~abort =>
           /\ sp' = "start"
           /\ iteration' = iteration + 1
           /\ userContent' = <<NoToolsUsed>>

\* C20: initiateTaskLoop stops iterating only when an iteration has
\* returned true or the abort flag is set, and an iteration that returns
\* false while the flag is unset is followed by an iteration whose input is
\* the no-tools-used nudge.
C20_LoopStopsOnlyOnTrueOrAbort == [][C20_LoopStep]_vars

(***************************************************************************)
(* Properties of abortTask.                                                *)
(***************************************************************************)
\* A step is a call abortTask(isAbandoned) on a task on which
\* abortTask(isAbandoned) has run before.
SecondAbort(isAbandoned) ==
    /\ abort
    /\ isAbandoned => abandoned
    /\ AbortTaskInLoop(isAbandoned)

C21_SecondAbortStep ==
    \A isAbandoned \in BOOLEAN :
        SecondAbort(isAbandoned) =>
            /\ abort'
            /\ abandoned' = abandoned
            /\ ~pauseInterval'
            /\ UNCHANGED <<clineMessages, apiConversationHistory>>

\* C21: abortTask is idempotent: a second call with the same argument
\* leaves abort, abandoned, pauseInterval and both message logs as the
\* first call left them: abort set, abandoned as it is, no timer, and the
\* logs untouched.
C21_AbortTaskIsIdempotent == [][C21_SecondAbortStep]_vars

\* abortTask(true) has run while the turn waited in waitForResume, and has
\* cleared the timer; the loop is still suspended, so abortTask can be
\* called again.
C21_Witness ==
    /\ abort
    /\ abandoned
    /\ sp = "waitingForResume"
    /\ ~pauseInterval
    /\ clineMessages # <<>>
    /\ apiConversationHistory # <<>>

C22_AbortStep ==
    /\ abort => abort'
    /\ abandoned => abandoned'

\* C22: abort is terminal: once abort is true it stays true, and once
\* abandoned is true it stays true.
C22_AbortIsTerminal == [][C22_AbortStep]_vars

\* The loop has gone on after abortTask(true): the stream was left and the
\* iteration has returned with both flags still set.
C22_Witness ==
    /\ abort
    /\ abandoned
    /\ sp \in {ReturnedTrue, LoopEnded}
    /\ requests > 0

(***************************************************************************)
(* Properties of the pause and resume wait.                                *)
(***************************************************************************)
\* C23: no pause timer leaks: the timer of waitForResume is set only while
\* the turn is suspended in waitForResume and the task is not aborted; once
\* waitForResume has returned or the task has been aborted, pauseInterval
\* is undefined.
C23_NoPauseTimerLeaks ==
    pauseInterval => sp = "waitingForResume" /\ ~abort

\* The turn posts its api_req_started placeholder.
PostsPlaceholder ==
    /\ Len(clineMessages') > Len(clineMessages)
    /\ clineMessages'[Len(clineMessages')].sub = "api_req_started"

C27_PausedStep ==
    isPaused =>
        /\ ~PostsPlaceholder
        /\ sp' = "loadingContext" => sp = "loadingContext"

\* C27: while isPaused is true the turn does not go past the pause
\* point: no step taken with isPaused set posts the api_req_started
\* placeholder or takes the turn to its context gathering.
C27_PausedTurnDoesNotStart == [][C27_PausedStep]_vars

(***************************************************************************)
(* Cancellation at the suspension points.                                  *)
(***************************************************************************)
\* C24: if the abort flag is set while an ask waits for a response, the
\* wait ends without a response or a later message.
C24_AbortEndsAskWait ==
    \A c \in Callers : (pc[c] = "waiting" /\ abort) ~> (pc[c] # "waiting")

\* C25: if abortTask runs while waitForResume waits, waitForResume
\* eventually returns control to the turn.
C25_AbortEndsResumeWait ==
    (sp = "waitingForResume" /\ abort) ~> (sp # "waitingForResume")

\* The turn resumes from its context gathering (mention resolution and
\* environment snapshot) with the abort flag set.
ResumesAbortedFromContext == abort /\ sp = "loadingContext" /\ sp' # sp

C26_ContextStep ==
    ResumesAbortedFromContext =>
        /\ apiConversationHistory' = apiConversationHistory
        /\ sp' \in {Thrown, ReturnedTrue}

\* C26: if the abort flag is set while a turn is suspended in its context
\* gathering, the turn re-checks the flag when the call returns: it appends
\* no message to the model-facing history and goes no further.
C26_AbortIsRecheckedAfterContext == [][C26_ContextStep]_vars

(***************************************************************************)
(* The abort check of the read loop.                                       *)
(***************************************************************************)
\* C28 as stated: once abort is set the read loop consumes at most one
\* further chunk, undefined chunks included.
C28_AtMostOneChunkAfterAbort == obs.sinceAbort <= 1

\* C28 as amended: the read loop looks at the abort flag after every
\* defined chunk, so once abort is set it consumes at most one further
\* defined chunk and stops reading in the iteration of that chunk;
\* undefined chunks are skipped without a look at the flag.
C28_AtMostOneDefinedChunkAfterAbort ==
    /\ obs.definedSinceAbort <= 1
    /\ obs.definedSinceAbort = 1 => sp \notin {"firstChunk", "reading"}

\* The flag was set while the loop read, an undefined chunk was skipped,
\* the next defined chunk was consumed, and the loop has stopped reading.
C28_Witness ==
    /\ abort
    /\ obs.definedSinceAbort = 1
    /\ obs.sinceAbort = 2
    /\ obs.leftBy = "abort"
    /\ sp \notin {"firstChunk", "reading"}


\* C29: before every request after the first the time elapsed since the
\* previous request's recorded start, countdown included, is at least
\* rateLimitSeconds, and the first request of a task waits in no
\* rate-limit countdown.
C29_RequestsKeepMinimumInterval ==
    /\ sp = "creating" /\ requests > 0 =>
           attempt.since + attempt.waited * Den >= config.rateLimitSeconds * Den
    /\ requests = 0 => sp \notin {"rateLimiting", "rateLimitDelaying"}

\* A step of attemptApiRequest from line 1551 on.
AttemptStep == sp = "creating" /\ sp' # "creating"

\* A step that calls api.createMessage.
CreateMessageStep == requests' = requests + 1

\* The auto_approval_max_req_reached ask returns response.
MaxRequestsAskReturns(response) ==
    /\ sp = "awaitingMaxRequests"
    /\ pc[LoopCaller] = "waiting"
    /\ pc'[LoopCaller] = "idle"
    /\ lastMessageTs = askTs[LoopCaller]
    /\ askResponse = response

C30_CounterStep ==
    /\ AttemptStep =>
           consecutiveAutoApprovedRequestsCount' = consecutiveAutoApprovedRequestsCount + 1
    /\ CreateMessageStep =>
           \/ /\ AttemptStep
              /\ \/ config.allowedMaxRequests = 0
                 \/ consecutiveAutoApprovedRequestsCount' <= config.allowedMaxRequests
           \/ \E response \in AskResponses : MaxRequestsAskReturns(response)
    /\ MaxRequestsAskReturns("yesButtonClicked") =>
           consecutiveAutoApprovedRequestsCount' = 0

\* C30: every request attempt increments
\* consecutiveAutoApprovedRequestsCount by one; with the count above the
\* configured ceiling api.createMessage is called only by the step in which
\* the auto_approval_max_req_reached ask returns an answer; and the answer
\* yesButtonClicked resets the count to 0.
C30_CeilingBlocksRequests == [][C30_CounterStep]_vars

\* A request issued with the count reset by an approval of the ceiling ask.
C30_Witness ==
    /\ config.allowedMaxRequests = 1
    /\ sp = "firstChunk"
    /\ requests >= 2
    /\ consecutiveAutoApprovedRequestsCount = 0

\* The stream of the turn has completed with no assistant text, and the
\* awaits of lines 1377-1378 are pending.
EndedWithoutText == sp = "finalized" /\ Len(locals.assistantMessage) = 0

\* The step appends the failure placeholder and returns false, without a
\* recursive call.
AppendsPlaceholderAndReturnsFalse ==
    /\ apiConversationHistory' =
           Append(apiConversationHistory, ApiMessage("assistant", <<NoResponseFailure>>))
    /\ sp' = ReturnedFalse
    /\ turn' = turn

\* The step is say("error", ...) up to its await.
SaysError ==
    /\ Len(clineMessages') = Len(clineMessages) + 1
    /\ clineMessages'[Len(clineMessages')].sub = "error"
    /\ sp' = "sayingError"

C31_EmptyStreamStep ==
    /\ EndedWithoutText /\ sp' # sp => SaysError
    /\ sp = "sayingError" /\ sp' # sp => AppendsPlaceholderAndReturnsFalse

\* C31: a stream that ends with no assistant text makes the turn say an
\* error, append the failure placeholder to the model-facing history and
\* return false without a recursive call.
C31_EmptyStreamSaysErrorAndReturnsFalse == [][C31_EmptyStreamStep]_vars

C31_EmptyStreamUnlessAbortedStep ==
    /\ EndedWithoutText /\ sp' # sp =>
           IF abort
           THEN /\ sp' = ReturnedTrue
                /\ UNCHANGED <<clineMessages, apiConversationHistory, turn>>
           ELSE SaysError
    /\ sp = "sayingError" /\ sp' # sp => AppendsPlaceholderAndReturnsFalse

\* C31 (amended): the same, unless the task is aborted while the awaits
\* after the stream are pending: then say("error") throws at its abort
\* guard, nothing is said or appended, and the turn returns true.
C31_EmptyStreamSaysErrorUnlessAborted == [][C31_EmptyStreamUnlessAbortedStep]_vars

\* A turn has returned false with the failure placeholder as the last
\* message of the history.
C31_Witness ==
    /\ sp = ReturnedFalse
    /\ Len(apiConversationHistory) > 0
    /\ apiConversationHistory[Len(apiConversationHistory)] =
           ApiMessage("assistant", <<NoResponseFailure>>)

\* The assistant output of the turn holds a tool_use block.
ContainsToolUse ==
    \E i \in 1..Len(locals.assistantMessage) : locals.assistantMessage[i] = "tool_use"

\* The number of 'no tools used' nudges in a user content.
Nudges(content) == Cardinality({i \in 1..Len(content) : content[i] = NoToolsUsed})

\* The turn, its stream completed and presented, makes the recursive call.
RecursiveCallStep == sp = "waitReady" /\ turn' = turn + 1

C32_NudgeStep ==
    /\ RecursiveCallStep =>
           /\ Len(locals.assistantMessage) > 0
           /\ IF ContainsToolUse
              THEN /\ Nudges(userContent') = 0
                   /\ consecutiveMistakeCount' = consecutiveMistakeCount
              ELSE /\ Nudges(userContent') = 1
                   /\ consecutiveMistakeCount' = consecutiveMistakeCount + 1
    /\ consecutiveMistakeCount' > consecutiveMistakeCount =>
           /\ consecutiveMistakeCount' = consecutiveMistakeCount + 1
           /\ \/ sp = "waitReady" /\ ~ContainsToolUse
              \/ sp = ReturnedFalse

\* C32: a turn with non-empty assistant output and no tool use hands
\* exactly one 'no tools used' nudge to the next turn and increases
\* consecutiveMistakeCount by exactly 1; a turn with a tool use hands over no
\* nudge and leaves the counter; the only other increase is the one of
\* initiateTaskLoop after a call has returned false.
C32_NoToolUseAddsOneNudge == [][C32_NudgeStep]_vars

\* The second turn of a call starts with the nudge as its input after a
\* first turn without tool use.
C32_Witness ==
    /\ sp = "start"
    /\ turn = 2
    /\ iteration = 1
    /\ userContent = <<NoToolsUsed>>
    /\ consecutiveMistakeCount = 1

\* The turn has left its for-await loop and, where abortStream runs, has
\* passed its updateApiReqMsg.
StreamLeft ==
    /\ obs.leftBy # "none"
    /\ sp \in {"abortStreamSaving", "finalized", "waitReady", "sayingError",
               ReturnedTrue, ReturnedFalse}

\* C33: once the stream of a turn has completed, or has been aborted on a
\* task that is not abandoned, the api_req_started message of the turn
\* carries tokensIn and tokensOut equal to the sums over the usage chunks
\* consumed in the turn.
C33_UsageIsFoldedIntoRequestStart ==
    StreamLeft /\ ~abandoned =>
        /\ ApiReqStarted.text.tokensIn = locals.inputTokens
        /\ ApiReqStarted.text.tokensOut = locals.outputTokens

\* C34 as stated: once didRejectTool is set on a task that is not aborted
\* the loop receives no further defined chunk in that turn, and the
\* assistant message it appends ends with the feedback marker.
C34_NoChunkAfterRejection ==
    /\ obs.sinceReject = 0
    /\ (didRejectTool /\ ~abort /\ sp = "waitReady")
       => LastApiMessage.content[Len(LastApiMessage.content)] = FeedbackMarker

\* C34 as amended: once didRejectTool is set on a task that is not aborted
\* the loop receives at most one further defined chunk in that turn and
\* ends in the iteration of that chunk, on the check of didRejectTool;
\* when it ends on that check, the marker is the last part of
\* assistantMessage, and the assistant message appended to the history is
\* that assistantMessage.
C34_AtMostOneChunkAfterRejection ==
    /\ obs.sinceReject <= 1
    /\ obs.sinceReject = 1 => sp \notin {"firstChunk", "reading"}
    /\ (obs.sinceReject = 1 /\ sp \in {"finalized", "waitReady"})
       => obs.leftBy = "feedback"
    /\ (obs.leftBy = "feedback" /\ sp \in {"finalized", "waitReady"})
       => locals.assistantMessage[Len(locals.assistantMessage)] = FeedbackMarker
    /\ (obs.leftBy = "feedback" /\ sp = "waitReady")
       => LastApiMessage = ApiMessage("assistant", locals.assistantMessage)

\* A tool_use text, the rejection, a later chunk of text, and the marker:
\* the loop ended on the check, the message is appended.
C34_Witness ==
    /\ sp = "waitReady"
    /\ obs.leftBy = "feedback"
    /\ obs.sinceReject = 1
    /\ ~abort
    /\ Len(locals.assistantMessage) = 3
    /\ locals.assistantMessage[1] = "tool_use"
    /\ locals.assistantMessage[3] = FeedbackMarker
    /\ LastApiMessage.content = locals.assistantMessage

\* The turn is inside the try block of its stream and not in abortStream.
InStreamLoop ==
    /\ isStreaming
    /\ sp \notin {"abortStreamAppended", "abortStreamSaving"}

C35_AbandonedStep ==
    InStreamLoop /\ abandoned =>
        /\ UNCHANGED <<apiConversationHistory, didFinishAbortingStream>>
        /\ clineMessages'[locals.lastApiReqIndex] = clineMessages[locals.lastApiReqIndex]
        /\ ~isStreaming' => /\ sp' = ReturnedTrue
                            /\ ~didFinishAbortingStream'
                            /\ UNCHANGED clineMessages

\* C35: when the streaming loop of an abandoned task sees the abort flag
\* or catches a stream error, no interrupted assistant message is appended
\* to the history, the api_req_started message is not updated,
\* didFinishAbortingStream stays false, and the turn returns true.
C35_AbandonedTurnEndsSilently == [][C35_AbandonedStep]_vars

\* The loop of an abandoned task was left on the abort check or from the
\* catch block, and the turn has returned true.
C35_Witness ==
    /\ sp = ReturnedTrue
    /\ abandoned
    /\ obs.leftBy \in {"abort", "error"}
    /\ ~didFinishAbortingStream
    /\ ApiReqStarted.text.tokensIn = NoTokens

\* summarizeConversation resolves without a summary.
ResolvesWithoutSummary ==
    /\ sp = "summarizing"
    /\ sp' # sp
    /\ obs'.summary \in {"undefined", ""}

C36_NoSummaryStep ==
    ResolvesWithoutSummary =>
        /\ sp' = StoreIdle
        /\ UNCHANGED <<apiConversationHistory, clineMessages, savedApiMessages,
                       savedTaskMessages, lastMessageTs>>

\* C36: when summarizeConversation resolves with no summary,
\* condenseContext returns without throwing and leaves the model-facing
\* history and the display log as they are: no condense_context message is
\* appended.
C36_NoSummaryChangesNothing == [][C36_NoSummaryStep]_vars

\* condenseContext has returned after summarizeConversation gave no
\* summary for a history and a display log that are not empty.
C36_Witness ==
    /\ sp = StoreIdle
    /\ obs.summary \in {"undefined", ""}
    /\ Len(apiConversationHistory) > 0
    /\ Len(clineMessages) > 0

(***************************************************************************)
(* The ask protocol with the operator's responses observed: obs.answeredIn *)
(* is where every calling context stood when the response now in the slot  *)
(* was submitted (not program state).                                      *)
(***************************************************************************)
\* Task.handleWebviewAskResponse, observed.
WebviewResponds(response) ==
    /\ askResponse' = response
    /\ ended' = NoEnd
    /\ obs' = [obs EXCEPT !.answeredIn = pc]
    /\ UNCHANGED <<clineMessages, lastMessageTs, taskVars, now, callerVars, track,
                   apiConversationHistory, taskFlags, loopVars, config, turnVars,
                   storeVars>>

AnswerNext ==
    \/ \E c \in Callers, type \in AskTypes, text \in Texts, partial \in Partials :
          Ask(c, type, text, partial)
    \/ \E c \in Callers : AskPartialAdded(c)
    \/ \E c \in Callers : AskPersisted(c)
    \/ \E c \in Callers : AskPoll(c)
    \/ \E response \in Responses : WebviewResponds(response)
    \/ \E isAbandoned \in BOOLEAN : AbortTask(isAbandoned)
    \/ Tick

AnswerSpec == Init /\ [][AnswerNext]_vars

\* The ask of context c returns the operator's response.
AskReturnsResponse(c) ==
    /\ pc[c] = "waiting"
    /\ pc'[c] = "idle"
    /\ ended' \in Responses

C37_AfterAppendStep ==
    \A c \in Callers : AskReturnsResponse(c) => obs.answeredIn[c] = "waiting"

\* C37 as stated: an ask returns only a response that was submitted after
\* its message had been appended, never one submitted before the ask or
\* while addToClineMessages was still running.
C37_ReturnsOnlyResponsesAfterAppend == [][C37_AfterAppendStep]_vars

C37_AfterCallStep ==
    \A c \in Callers :
        AskReturnsResponse(c) => obs.answeredIn[c] \in {"persisting", "waiting"}

\* C37, amended: an ask returns only a response that was submitted after
\* the ask's call cleared the response slot and wrote its message into the
\* log; a response submitted before the call is never returned, one
\* submitted while addToClineMessages is still awaited is.
C37_ReturnsOnlyResponsesAfterCall == [][C37_AfterCallStep]_vars

\* An ask has returned a response that was submitted while its message was
\* still being persisted.
C37_Witness ==
    /\ ended \in Responses
    /\ \E c \in Callers : pc[c] = "idle" /\ obs.answeredIn[c] = "persisting"

\* C38: no two entries of the display log carry the same ts, even when
\* two messages are appended within one clock tick.
C38_TimestampsAreDistinct ==
    \A i, j \in DOMAIN clineMessages :
        i # j => clineMessages[i].ts # clineMessages[j].ts

\* C39: when a model request has been issued, every api_req_retry_delayed
\* countdown message of the log, of the rate-limit countdown as well as of
\* the retry countdown, has been finalized (partial = false).
C39_CountdownsAreFinalizedAtRequest ==
    sp = "firstChunk" =>
        \A i \in DOMAIN clineMessages :
            clineMessages[i].sub = "api_req_retry_delayed" =>
                clineMessages[i].partial # "true"

\* The assistant message abortStream appends for the turn's text and
\* cancel reason.
InterruptedMessage ==
    ApiMessage("assistant",
               locals.assistantMessage \o <<InterruptMarker(locals.cancelReason)>>)

InterruptedMessageIsLast ==
    /\ Len(apiConversationHistory) > 0
    /\ LastApiMessage = InterruptedMessage

C40_FlagStep ==
    (~didFinishAbortingStream /\ didFinishAbortingStream') =>
        /\ sp = "abortStreamSaving"
        /\ InterruptedMessageIsLast
        /\ locals.cancelReason \in {"streaming_failed", "user_cancelled"}
        /\ ApiReqStarted.text.cancelReason = locals.cancelReason
        /\ UNCHANGED <<apiConversationHistory, clineMessages>>

\* C40: didFinishAbortingStream becomes true only when the interrupted
\* assistant message has been appended to the model-facing history, the
\* request-start display message carries the cancel reason and the await of
\* saveClineMessages has returned; and in every state where the flag is
\* true the last model-facing message is that interrupted message.
C40_FlagFollowsInterruptedMessage ==
    /\ [][C40_FlagStep]_vars
    /\ [](didFinishAbortingStream => InterruptedMessageIsLast)

====
